---- MODULE Spec2Model ----
(***************************************************************************)
(* Verification model of the Amazon Q Business connector lambdas.          *)
(*                                                                         *)
(* Spec      the Zendesk OAuth flow: initiate-oauth-flow, oauth-callback   *)
(*           and exchange-auth-code-for-token run as independent           *)
(*           invocations over one DynamoDB state table and one Secrets     *)
(*           Manager store; the exchange handler is interleaved at the     *)
(*           granularity of its external calls, NumExchange at a time.     *)
(* SeqSpec   the same handlers with one exchange invocation at a time and  *)
(*           every request body, for the claims about what store_state     *)
(*           and get_state compute.                                        *)
(* PollSpec  the qbusiness-analyze-cloudwatch-logs handler: start_query    *)
(*           followed by the bounded get_query_results polling loop.       *)
(* DsSpec    the ServiceNow, SharePoint and Zendesk create-data-source     *)
(*           handlers with store_credentials_in_secrets_manager, and       *)
(*           servicenow/create-oauth-app and sharepoint/delete-azure-app,  *)
(*           one invocation at a time.                                     *)
(* ParamSpec the qbusiness-sync-data-source and qbusiness-sync-summary     *)
(*           handlers and salesforce/setup-salesforce-actions-plugin.      *)
(* SfSpec    the Salesforce handlers create-connected-app,                 *)
(*           update-credentials, test-authentication and                   *)
(*           create-data-source over one Secrets Manager store.            *)
(* AuthSpec  the API Gateway request authorizer.                           *)
(* ListSpec  the two copies of the list-applications handler over one      *)
(*           Q Business control plane.                                     *)
(***************************************************************************)
EXTENDS Integers, Sequences, FiniteSets, TLC

\* ---------------------------------------------------------------- bounds

\* number of OAuth flows that may be initiated (uuid4 tokens generated)
MaxFlows == 2

\* number of times the wall clock may advance
MaxTicks == 1

\* number of concurrently running exchange invocations
NumExchange == 2

\* -------------------------------------------------------- python values

\* Python's None, for string-valued names
None == "<None>"

\* Python's None, for dict-valued names
NoneDict == [isNone |-> TRUE]

\* truthiness of a str-or-None value: `not v` is True for None and ""
Truthy(v) == v # None /\ v # ""

\* truthiness of a dict-or-None value: `not d` is True for None and {}
TruthyDict(d) == d # NoneDict /\ DOMAIN d # {}

\* dict.get(key) with the default None
Get(d, k) == IF k \in DOMAIN d THEN d[k] ELSE None

\* the order in which the payload dict literal lists its keys
KeyOrder == <<"clientId", "clientSecret", "zendeskSubdomain">>

\* json.dumps that loses the last key of the document
M_json_dumps(d) ==
    LET keys == SelectSeq(KeyOrder, LAMBDA k : k \in DOMAIN d)
    IN  [i \in 1..(Len(keys) - 1) |-> <<keys[i], d[keys[i]]>>]

\* json.dumps of a flat dict of strings: the key/value pairs in key order
json_dumps(d) ==
    LET keys == SelectSeq(KeyOrder, LAMBDA k : k \in DOMAIN d)
    IN  [i \in 1..Len(keys) |-> <<keys[i], d[keys[i]]>>]

\* json.loads of such a document: the last pair of a key wins
json_loads(s) ==
    [k \in {s[i][1] : i \in DOMAIN s} |->
        s[CHOOSE i \in DOMAIN s :
              s[i][1] = k /\ \A j \in DOMAIN s : j > i => s[j][1] # k][2]]

\* ------------------------------------------------------- request inputs

ClientIds == {"amazon-q-business-1750882988", "zd-7"}
ClientSecrets == {"cs-1"}
Subdomains == {"acme"}
Codes == {"auth-code"}
AccessTokens == {"at-1"}

\* str.split("-") on the client ids of the model
Split(s) ==
    CASE s = "amazon-q-business-1750882988"
           -> <<"amazon", "q", "business", "1750882988">>
      [] s = "zd-7" -> <<"zd", "7">>
      [] OTHER -> <<s>>

\* the values uuid.uuid4() returns, in order (never repeated)
Uuids == <<"uuid-1", "uuid-2", "uuid-3", "uuid-4">>

\* a state token no flow ever issued
Bogus == "bogus"

\* default of store_state's ttl_seconds parameter
ttl_seconds == 3600

\* the amounts by which the clock advances between steps: up to the expiry
\* of a record just written, and past it
TickSteps == {ttl_seconds, ttl_seconds + 1}

\* request bodies of initiate-oauth-flow: complete, or with one field absent,
\* or empty, or with an empty clientSecret
InitiateBodies ==
    LET full == {[clientId |-> c, clientSecret |-> x, zendeskSubdomain |-> z] :
                    c \in ClientIds, x \in ClientSecrets \cup {""},
                    z \in Subdomains}
        Without(b, k) == [j \in DOMAIN b \ {k} |-> b[j]]
    IN  full
        \cup {Without(b, k) : b \in {f \in full : f.clientSecret # ""},
                              k \in {"clientId", "clientSecret",
                                     "zendeskSubdomain"}}
        \cup {<<>>}

VARIABLES
    now,               \* int(time.time())
    ticks,             \* how often the clock has advanced
    STATE_TABLE_NAME,  \* os.environ.get("STATE_TABLE_NAME")
    nuuid,             \* number of uuid4 values generated so far
    stateTable,        \* the DynamoDB state table: id -> item
    secrets,           \* Secrets Manager: secret name -> secret value
    initiated,         \* history: token -> payload handed to store_state
    cbAccepted,        \* history: tokens for which oauth-callback returned 200
    ex,                \* the exchange invocations: slot -> frame
    succeeded,         \* history: tokens for which the exchange returned 200
    exDeleted,         \* history: tokens the exchange handler called delete_item for
    poll,              \* the analyze-cloudwatch-logs invocation
    inv                \* the invocation of a single-request handler: its frame

zendeskVars ==
    <<now, ticks, STATE_TABLE_NAME, nuuid, stateTable, secrets, initiated,
      cbAccepted, ex, succeeded, exDeleted>>

vars == <<zendeskVars, poll, inv>>

\* ------------------------------------------------------------- DynamoDB

\* every key a request may name
Keys == {Uuids[i] : i \in DOMAIN Uuids} \cup {Bogus}

\* the tokens issued so far
Issued == {Uuids[i] : i \in 1..nuuid}

\* Table.get_item(Key={"id": key}): the response carries Item when present
get_item(table, key) ==
    IF key \in DOMAIN table THEN [Item |-> table[key]] ELSE <<>>

\* Table.put_item(Item=item)
put_item(table, item) ==
    [k \in DOMAIN table \cup {item.id} |->
        IF k = item.id THEN item ELSE table[k]]

\* a delete_item that leaves the item in the table
M_delete_item(table, key) == table

\* Table.delete_item(Key={"id": key})
delete_item(table, key) == [k \in DOMAIN table \ {key} |-> table[k]]

\* a handler response: the status code and the error / page title
Resp(code, err) == [statusCode |-> code, error |-> err]

\* ---------------------------------------------------- initiate-oauth-flow

\* store_state: the table after the item for `state` is written at time t
store_state(table, state, data, t) ==
    LET expires == t + ttl_seconds
    IN  put_item(table,
                 [id |-> state, data |-> json_dumps(data), expires |-> expires])

\* handler of initiate-oauth-flow
Initiate(body) ==
    LET client_id == Get(body, "clientId")
        client_secret == Get(body, "clientSecret")
        zendesk_subdomain == Get(body, "zendeskSubdomain")
        state == Uuids[nuuid + 1]
        data == [clientId |-> client_id, clientSecret |-> client_secret,
                 zendeskSubdomain |-> zendesk_subdomain]
    IN  /\ IF ~Truthy(client_id) \/ ~Truthy(client_secret)
              \/ ~Truthy(zendesk_subdomain)
           THEN UNCHANGED <<nuuid, stateTable, initiated>>
           ELSE /\ nuuid < MaxFlows
                /\ nuuid' = nuuid + 1
                /\ IF STATE_TABLE_NAME = None
                   THEN UNCHANGED <<stateTable, initiated>>
                   ELSE /\ stateTable' = store_state(stateTable, state, data, now)
                        /\ initiated' = [k \in DOMAIN initiated \cup {state} |->
                                            IF k = state THEN data ELSE initiated[k]]
        /\ UNCHANGED <<now, ticks, STATE_TABLE_NAME, secrets, cbAccepted, ex,
                       succeeded, exDeleted, poll, inv>>

\* the clock advances
Tick(d) ==
    /\ ticks < MaxTicks
    /\ ticks' = ticks + 1
    /\ now' = now + d
    /\ UNCHANGED <<STATE_TABLE_NAME, nuuid, stateTable, secrets, initiated,
                   cbAccepted, ex, succeeded, exDeleted, poll, inv>>

\* --------------------------------------------------------- oauth-callback

\* the query parameters a redirect may carry: code and state, one of them
\* missing, or an error
QueryParams ==
    {[code |-> c, state |-> st] : c \in Codes, st \in Issued \cup {Bogus}}
    \cup {[code |-> c] : c \in Codes}
    \cup {[state |-> Bogus], [error |-> "access_denied"], <<>>}
    \cup {[code |-> c, state |-> Bogus, error |-> "access_denied"] : c \in Codes}

\* the event carries them directly or nested in params.querystring
CallbackEvents ==
    {[queryStringParameters |-> q, querystring |-> NoneDict] : q \in QueryParams}
    \cup {[queryStringParameters |-> NoneDict, querystring |-> q] :
              q \in {p \in QueryParams : DOMAIN p = {"code", "state"}}}

\* oauth-callback's get_state: the parsed data, the item without data, or None
callback_get_state(table, state) ==
    LET response == get_item(table, state)
    IN  IF "Item" \notin DOMAIN response THEN NoneDict
        ELSE IF "data" \in DOMAIN response.Item
             THEN json_loads(response.Item.data)
             ELSE response.Item

\* the expiry check of the oauth-callback handler on what get_state returned
callback_expired(state_data, t) ==
    "expires" \in DOMAIN state_data /\ state_data["expires"] < t

\* handler of oauth-callback
Callback(event) ==
    LET direct == IF TruthyDict(event.queryStringParameters)
                  THEN event.queryStringParameters ELSE <<>>
        query_params ==
            IF (~Truthy(Get(direct, "code")) \/ ~Truthy(Get(direct, "state")))
               /\ TruthyDict(event.querystring)
            THEN event.querystring ELSE direct
        code == Get(query_params, "code")
        state == Get(query_params, "state")
        error == Get(query_params, "error")
        state_data == callback_get_state(stateTable, state)
        response ==
            IF Truthy(error) THEN Resp(400, error)
            ELSE IF ~Truthy(code) \/ ~Truthy(state) THEN Resp(400, "Bad Request")
            ELSE IF STATE_TABLE_NAME = None THEN Resp(400, "Server Error")
            ELSE IF ~TruthyDict(state_data) THEN Resp(400, "Invalid State")
            ELSE IF callback_expired(state_data, now)
                 THEN Resp(400, "Expired State")
            ELSE Resp(200, None)
    IN  /\ cbAccepted' = IF response.statusCode = 200
                         THEN cbAccepted \cup {state} ELSE cbAccepted
        /\ UNCHANGED <<now, ticks, STATE_TABLE_NAME, nuuid, stateTable, secrets,
                       initiated, ex, succeeded, exDeleted, poll, inv>>

\* ------------------------------------------- exchange-auth-code-for-token

Slots == 1..NumExchange

\* request bodies of the exchange endpoint, as parse_body returns them
ExchangeBodies ==
    {[code |-> c, state |-> st] : c \in Codes, st \in Issued \cup {Bogus}}
    \cup {[state |-> st] : st \in Issued \cup {Bogus}}
    \cup {[code |-> c] : c \in Codes}

\* how an item's expiry stood against the clock when it was read
Cmp(table, state, t) ==
    IF state \notin DOMAIN table THEN "absent"
    ELSE IF table[state].expires < t THEN "lt"
    ELSE IF table[state].expires = t THEN "eq" ELSE "gt"

\* the frame of an invocation that has not started. The locals are those of
\* the handler; later, tokenReq, wrote and cmp record what the invocation
\* did: whether it began after an exchange had succeeded for its state token,
\* whether it posted to the token endpoint, whether it wrote a secret, and
\* how get_state found the item (kept until the next external call)
IdleFrame ==
    [pc |-> "idle", state |-> None, code |-> None, state_data |-> NoneDict,
     token_data |-> NoneDict, secret_name |-> <<>>, resp |-> Resp(0, None),
     later |-> FALSE, tokenReq |-> FALSE, wrote |-> FALSE, cmp |-> "none"]

\* an expiry test that also rejects the record at the instant of its expiry
M_state_has_expired(item, t) == "expires" \in DOMAIN item /\ item["expires"] <= t

\* the expiry test of the exchange handler's get_state
state_has_expired(item, t) == "expires" \in DOMAIN item /\ item["expires"] < t

\* a get_state without the expiry test
M_exchange_get_state(table, state, t) ==
    LET response == get_item(table, state)
    IN  IF "Item" \notin DOMAIN response
        THEN [data |-> NoneDict, table |-> table, deleted |-> FALSE]
        ELSE [data |-> json_loads(response.Item.data), table |-> table,
              deleted |-> FALSE]

\* the exchange handler's get_state: what it returns, the table it leaves
\* and whether it called delete_item
exchange_get_state(table, state, t) ==
    LET response == get_item(table, state)
    IN  IF "Item" \notin DOMAIN response
        THEN [data |-> NoneDict, table |-> table, deleted |-> FALSE]
        ELSE IF state_has_expired(response.Item, t)
        THEN [data |-> NoneDict, table |-> delete_item(table, state),
              deleted |-> TRUE]
        ELSE IF "data" \in DOMAIN response.Item
        THEN [data |-> json_loads(response.Item.data), table |-> table,
              deleted |-> FALSE]
        ELSE [data |-> NoneDict, table |-> table, deleted |-> FALSE]

\* the invocation ends with response r; its locals go with the frame (the
\* code of the request is kept, to tell which request was answered)
Return(i, f, r) ==
    ex' = [ex EXCEPT ![i] = [f EXCEPT !.pc = "done", !.resp = r,
                                      !.state = None,
                                      !.state_data = NoneDict,
                                      !.token_data = NoneDict,
                                      !.secret_name = <<>>]]

\* handler entry up to and including get_state
ExStart(i, body) ==
    LET code == Get(body, "code")
        state == Get(body, "state")
        f == [IdleFrame EXCEPT !.state = state, !.code = code,
                               !.later = state \in succeeded]
        got == exchange_get_state(stateTable, state, now)
        g == [f EXCEPT !.cmp = Cmp(stateTable, state, now),
                       !.state_data = got.data]
    IN  /\ ex[i].pc \in {"idle", "done"}
        /\ IF ~Truthy(code) \/ ~Truthy(state)
           THEN /\ Return(i, f, Resp(400, "Missing Required Parameters"))
                /\ UNCHANGED <<stateTable, exDeleted>>
           ELSE IF STATE_TABLE_NAME = None
           THEN /\ Return(i, f, Resp(500, "Internal Server Error"))
                /\ UNCHANGED <<stateTable, exDeleted>>
           ELSE /\ stateTable' = got.table
                /\ exDeleted' = IF got.deleted THEN exDeleted \cup {state}
                                ELSE exDeleted
                /\ IF ~TruthyDict(got.data)
                   THEN Return(i, g, Resp(400, "Invalid State"))
                   ELSE ex' = [ex EXCEPT ![i] = [g EXCEPT !.pc = "token"]]
        /\ UNCHANGED <<now, ticks, STATE_TABLE_NAME, nuuid, secrets, initiated,
                       cbAccepted, succeeded, poll, inv>>

\* the outcomes of the POST to https://<subdomain>.zendesk.com/oauth/tokens
TokenOutcomes == {[ok |-> TRUE, access_token |-> a] : a \in AccessTokens}
                 \cup {[ok |-> FALSE, access_token |-> None]}

\* exchange_code_for_token, then the secret name is derived
ExToken(i, outcome) ==
    LET f == [ex[i] EXCEPT !.tokenReq = TRUE, !.cmp = "none"]
        client_id == Get(f.state_data, "clientId")
        zendesk_subdomain == Get(f.state_data, "zendeskSubdomain")
        parts == Split(client_id)
        unique_id == parts[Len(parts)]
    IN  /\ ex[i].pc = "token"
        /\ IF ~outcome.ok
           THEN Return(i, f, Resp(500, "Zendesk API Error"))
           ELSE ex' = [ex EXCEPT ![i] =
                    [f EXCEPT !.pc = "describe",
                              !.token_data = [access_token |-> outcome.access_token],
                              !.secret_name = <<zendesk_subdomain, unique_id>>]]
        /\ UNCHANGED <<now, ticks, STATE_TABLE_NAME, nuuid, stateTable, secrets,
                       initiated, cbAccepted, succeeded, exDeleted, poll, inv>>

\* store_token's secret value
secret_value(f) ==
    [accessToken |-> Get(f.token_data, "access_token"),
     hostUrl |-> Get(f.state_data, "zendeskSubdomain")]

\* store_token: describe_secret decides between update and create
ExDescribe(i) ==
    /\ ex[i].pc = "describe"
    /\ ex' = [ex EXCEPT ![i].pc =
                IF ex[i].secret_name \in DOMAIN secrets THEN "update" ELSE "create"]
    /\ UNCHANGED <<now, ticks, STATE_TABLE_NAME, nuuid, stateTable, secrets,
                   initiated, cbAccepted, succeeded, exDeleted, poll, inv>>

\* store_token: update_secret of the secret describe_secret found; `fail`
\* is an error of Secrets Manager
ExUpdate(i, fail) ==
    /\ ex[i].pc = "update"
    /\ IF fail \/ ex[i].secret_name \notin DOMAIN secrets
       THEN /\ Return(i, ex[i], Resp(500, "Internal Server Error"))
            /\ UNCHANGED secrets
       ELSE /\ secrets' = [secrets EXCEPT ![ex[i].secret_name] = secret_value(ex[i])]
            /\ ex' = [ex EXCEPT ![i].pc = "delete", ![i].wrote = TRUE]
    /\ UNCHANGED <<now, ticks, STATE_TABLE_NAME, nuuid, stateTable, initiated,
                   cbAccepted, succeeded, exDeleted, poll, inv>>

\* store_token: create_secret after ResourceNotFoundException; a secret
\* created meanwhile makes it raise ResourceExistsException
ExCreate(i, fail) ==
    /\ ex[i].pc = "create"
    /\ IF fail \/ ex[i].secret_name \in DOMAIN secrets
       THEN /\ Return(i, ex[i], Resp(500, "Internal Server Error"))
            /\ UNCHANGED secrets
       ELSE /\ secrets' = [n \in DOMAIN secrets \cup {ex[i].secret_name} |->
                              IF n = ex[i].secret_name THEN secret_value(ex[i])
                              ELSE secrets[n]]
            /\ ex' = [ex EXCEPT ![i].pc = "delete", ![i].wrote = TRUE]
    /\ UNCHANGED <<now, ticks, STATE_TABLE_NAME, nuuid, stateTable, initiated,
                   cbAccepted, succeeded, exDeleted, poll, inv>>

\* delete_state, then the 200 response
ExDelete(i) ==
    /\ ex[i].pc = "delete"
    /\ IF STATE_TABLE_NAME = None
       THEN UNCHANGED <<stateTable, exDeleted>>
       ELSE /\ stateTable' = delete_item(stateTable, ex[i].state)
            /\ exDeleted' = exDeleted \cup {ex[i].state}
    /\ Return(i, ex[i], Resp(200, None))
    /\ succeeded' = succeeded \cup {ex[i].state}
    /\ UNCHANGED <<now, ticks, STATE_TABLE_NAME, nuuid, secrets, initiated,
                   cbAccepted, poll, inv>>

\* -------------------------------------------- analyze-cloudwatch-logs

\* max_attempts of the polling loop
max_attempts == 12

\* backoff_time, in seconds
backoff_time == 5

\* the cap of min(..., 20), in seconds
wait_cap == 20

\* most rows a completed query returns in the model
MaxResults == 2

Min(a, b) == IF a < b THEN a ELSE b

\* wait_time = min(backoff_time * (1.5 ** (attempt - 1)), 20), in sixteenths
\* of a second (exact for every attempt below the cap)
wait_time(attempt) ==
    Min((backoff_time * 16 * 3^(attempt - 1)) \div 2^(attempt - 1),
        wait_cap * 16)

\* the status values of get_query_results
QueryStatuses ==
    {"Scheduled", "Running", "Complete", "Failed", "Cancelled", "Timeout",
     "Unknown"}

\* what one get_query_results call does: a response, or an exception
PollOutcomes ==
    {[kind |-> "response", status |-> st, results |-> n] :
        st \in QueryStatuses, n \in 0..MaxResults}
    \cup {[kind |-> k, status |-> None, results |-> 0] :
              k \in {"ResourceNotFoundException", "ClientError"}}

\* the invocation before the handler runs. status is response["status"]
\* (None while response is None), results the length of
\* response["results"]; wait is the wait_time last computed and gap the time
\* the handler let pass between the previous poll and the last one;
\* notFound and onlyRunning record what the polls returned
PollIdle ==
    [pc |-> "idle", attempt |-> 0, status |-> None, results |-> 0, wait |-> 0,
     gap |-> 0, notFound |-> FALSE, onlyRunning |-> TRUE,
     resp |-> Resp(0, None), logs |-> 0]

\* handler entry up to start_query. int(since) is evaluated before the try
\* block; start_query is inside it
PollStart(since_ok, start_ok) ==
    /\ poll.pc = "idle"
    /\ poll' = IF ~since_ok THEN [poll EXCEPT !.pc = "raised"]
               ELSE IF ~start_ok
               THEN [poll EXCEPT !.pc = "done",
                                 !.resp = Resp(500, "start_query")]
               ELSE [poll EXCEPT !.pc = "loop"]
    /\ UNCHANGED <<zendeskVars, inv>>

\* a loop condition that allows one attempt more
M_loop_condition(p) ==
    (p.status = None \/ p.status = "Running") /\ p.attempt <= max_attempts

\* the condition of the while loop
loop_condition(p) ==
    (p.status = None \/ p.status = "Running") /\ p.attempt < max_attempts

\* one iteration of the while loop: nothing sleeps between computing
\* wait_time and calling get_query_results
PollLoop(outcome) ==
    LET attempt == poll.attempt + 1
        p == [poll EXCEPT !.attempt = attempt, !.wait = wait_time(attempt),
                          !.gap = 0,
                          !.onlyRunning = poll.onlyRunning
                                          /\ outcome.kind = "response"
                                          /\ outcome.status = "Running"]
    IN  /\ poll.pc = "loop"
        /\ loop_condition(poll)
        /\ poll' =
             IF outcome.kind = "response"
             THEN [p EXCEPT !.status = outcome.status,
                            !.results = outcome.results]
             ELSE IF outcome.kind = "ResourceNotFoundException"
             THEN [p EXCEPT !.pc = "break", !.notFound = TRUE]
             ELSE [p EXCEPT !.pc = "done", !.resp = Resp(500, outcome.kind)]
        /\ UNCHANGED <<zendeskVars, inv>>

\* after the loop: the timeout response, or the logs of the response
PollExit ==
    /\ \/ poll.pc = "loop" /\ ~loop_condition(poll)
       \/ poll.pc = "break"
    /\ poll' = IF poll.status = None \/ poll.status = "Running"
               THEN [poll EXCEPT !.pc = "done",
                                 !.resp = Resp(408, "Query Timeout")]
               ELSE [poll EXCEPT !.pc = "done", !.resp = Resp(200, None),
                                 !.logs = poll.results]
    /\ UNCHANGED <<zendeskVars, inv>>

\* ------------------------------------------ single-request handlers

\* a dict without the key k
Drop(d, k) == [x \in DOMAIN d \ {k} |-> d[x]]

\* the request events built on the complete body `full`: the body itself,
\* the body lacking one of its keys, the empty body, and an event that has
\* no "body-json" at all
EventsOf(full) ==
    {"body-json" :> b : b \in {full, <<>>} \cup {Drop(full, k) : k \in DOMAIN full}}
        \cup {<<>>}

\* event["body-json"][k] for every k of keys raises KeyError unless all
\* of them are there
HasAll(event, keys) ==
    "body-json" \in DOMAIN event /\ keys \subseteq DOMAIN event["body-json"]

\* the frame of a handler invocation that has not started: the handler
\* that runs, its position, the locals it keeps and the response returned.
\* got is the secret document read from Secrets Manager, calls the partner
\* and control plane services called, logs the documents printed, config
\* the data source configuration built, and prev the arguments and the
\* result of the configuration builder in the invocation before this one
\* when that invocation served the same request, acc the list the handler
\* has built so far.
InvIdle ==
    [handler |-> None, pc |-> "idle", event |-> <<>>, body |-> NoneDict,
     secret_name |-> None, secret_value |-> NoneDict, updated |-> FALSE,
     got |-> NoneDict, calls |-> {}, logs |-> {}, resp |-> NoneDict,
     err |-> None, config |-> NoneDict, prev |-> NoneDict, acc |-> <<>>]

\* the frame when handler h is entered with the request `event`
InvBegin(h, event) == [InvIdle EXCEPT !.handler = h, !.event = event]

\* a slot in which the next invocation can start
InvFree == inv.pc \in {"idle", "done", "raised"}

\* the handler returns response r
InvReturn(r) ==
    inv' = [InvBegin(inv.handler, inv.event) EXCEPT
              !.pc = "done", !.body = inv.body, !.got = inv.got,
              !.calls = inv.calls, !.logs = inv.logs, !.resp = r]

\* the exception err leaves the handler: the invocation ends without a
\* response
InvRaise(err) ==
    inv' = [InvBegin(inv.handler, inv.event) EXCEPT
              !.pc = "raised", !.body = inv.body, !.got = inv.got,
              !.calls = inv.calls, !.logs = inv.logs, !.err = err]

\* ----------------------------------------- servicenow/create-data-source

SnPasswords == {"pw-1", "pw-2"}
SnInstances == {"dev1", "dev2"}

\* the complete request bodies of servicenow/create-data-source
SnFull ==
    {[datasourceName |-> "snow-ds", applicationId |-> "app-1",
      indexId |-> "idx-1", instance |-> i, username |-> "admin",
      password |-> p, clientId |-> "cid", clientSecret |-> "cs-1"] :
        i \in SnInstances, p \in SnPasswords}

SnEvents == UNION {EventsOf(b) : b \in SnFull}

\* f"qbusiness-servicenow-secret-{instance}-{client_id}"
sn_secret_name(instance, client_id) ==
    CASE instance = "dev1" -> "qbusiness-servicenow-secret-dev1-cid"
      [] instance = "dev2" -> "qbusiness-servicenow-secret-dev2-cid"

\* the dict store_credentials_in_secrets_manager serialises
sn_secret_value(body) ==
    [clientId |-> body.clientId, clientSecret |-> body.clientSecret,
     username |-> body.username, password |-> body.password]

\* handler of servicenow/create-data-source up to the call of
\* store_credentials_in_secrets_manager: the eight subscripts of
\* event["body-json"] are outside any try
SnStart(event) ==
    /\ InvFree
    /\ IF HasAll(event, {"datasourceName", "applicationId", "indexId",
                         "instance", "username", "password", "clientId",
                         "clientSecret"})
       THEN LET body == event["body-json"]
            IN  inv' = [InvBegin("servicenow/create-data-source", event) EXCEPT
                          !.pc = "create_secret", !.body = body,
                          !.secret_name =
                              sn_secret_name(body.instance, body.clientId),
                          !.secret_value = sn_secret_value(body)]
       ELSE inv' = [InvBegin("servicenow/create-data-source", event) EXCEPT
                      !.pc = "raised", !.err = "KeyError"]
    /\ UNCHANGED <<zendeskVars, poll>>

\* ------------------------------------------- servicenow/create-oauth-app

\* the complete request body of servicenow/create-oauth-app
OaFull ==
    [name |-> "connector-q-snow", username |-> "admin", password |-> "pw-1",
     instance |-> "dev1", redirectUrl |-> "https://q.example/oauth/callback"]

OaEvents == EventsOf(OaFull)

\* str(uuid.uuid4()) for the client secret
OaSecrets == {"uuid-client-secret-1", "uuid-client-secret-2"}

\* handler and insert up to gr.insert(): the event is printed, and a
\* KeyError of the five subscripts is answered with 500 by the handler
OaStart(event) ==
    /\ InvFree
    /\ IF ~HasAll(event, {"name", "username", "password", "instance",
                          "redirectUrl"})
       THEN inv' = [InvBegin("servicenow/create-oauth-app", event) EXCEPT
                      !.pc = "done", !.logs = {event},
                      !.resp = [statusCode |-> 500,
                                error |-> "Internal Server Error"]]
       ELSE inv' = [InvBegin("servicenow/create-oauth-app", event) EXCEPT
                      !.pc = "gr_insert", !.body = event["body-json"],
                      !.logs = {event}]
    /\ UNCHANGED <<zendeskVars, poll>>

\* the response dict of insert for the generated client_secret
oa_response(body, client_secret) ==
    [app_name |-> body.name, client_id |-> "uuid-client-id",
     client_secret |-> client_secret, sys_id |-> "sys-1"]

\* gr.insert() with the generated client_secret, then the printed response
\* and the 200; `fail` is an error of the ServiceNow API, answered with 500
OaInsert(client_secret, fail) ==
    /\ inv.pc = "gr_insert"
    /\ inv' =
         IF fail
         THEN [InvBegin(inv.handler, inv.event) EXCEPT
                 !.pc = "done", !.body = inv.body, !.calls = {"servicenow"},
                 !.logs = inv.logs,
                 !.resp = [statusCode |-> 500, error |-> "ServiceNow API Error"]]
         ELSE [InvBegin(inv.handler, inv.event) EXCEPT
                 !.pc = "done", !.body = inv.body,
                 !.secret_value = [client_secret |-> client_secret],
                 !.calls = {"servicenow"},
                 !.logs = inv.logs \cup {oa_response(inv.body, client_secret)},
                 !.resp = [statusCode |-> 200,
                           body |-> "ServiceNow OAuth App is successfully created",
                           response |-> oa_response(inv.body, client_secret)]]
    /\ UNCHANGED <<zendeskVars, poll>>

\* ----------------------------------------- sharepoint/create-data-source

\* what the private.key object of the bucket may hold
PrivateKeys == {"pk-1", "pk-2"}

\* the complete request body of sharepoint/create-data-source
SpFull ==
    [applicationId |-> "app-1", indexId |-> "idx-1",
     sharePointUrl |-> "https://contoso.sharepoint.com/sites/q",
     tenantId |-> "tenant-1", clientId |-> "azure-cid",
     s3Bucket |-> "cert-bucket", dataSourceName |-> "sp-ds"]

SpEvents == EventsOf(SpFull)

\* urlparse(sharepoint_url).netloc.split(".")[0]
sp_domain(url) ==
    CASE url = "https://contoso.sharepoint.com/sites/q" -> "contoso"

\* f"qbusiness-sharepoint-secret-{domain}-{client_id}"
sp_secret_name(domain, client_id) ==
    CASE domain = "contoso" /\ client_id = "azure-cid" ->
             "qbusiness-sharepoint-secret-contoso-azure-cid"

\* the dict store_credentials_in_secrets_manager serialises
sp_secret_value(client_id, pk) ==
    [clientId |-> client_id, privateKey |-> pk, authType |-> "OAuth2Certificate"]

\* handler of sharepoint/create-data-source up to the call of
\* store_credentials_in_secrets_manager: seven subscripts of
\* event["body-json"], then read_private_key, whose get_object returns the
\* key pk or raises (pk = None); none of it is inside a try
SpStart(event, pk) ==
    /\ InvFree
    /\ IF ~HasAll(event, {"applicationId", "indexId", "sharePointUrl",
                          "tenantId", "clientId", "s3Bucket", "dataSourceName"})
       THEN inv' = [InvBegin("sharepoint/create-data-source", event) EXCEPT
                      !.pc = "raised", !.err = "KeyError"]
       ELSE IF pk = None
       THEN inv' = [InvBegin("sharepoint/create-data-source", event) EXCEPT
                      !.pc = "raised", !.err = "ClientError"]
       ELSE LET body == event["body-json"]
            IN  inv' = [InvBegin("sharepoint/create-data-source", event) EXCEPT
                          !.pc = "create_secret", !.body = body,
                          !.secret_name =
                              sp_secret_name(sp_domain(body.sharePointUrl),
                                             body.clientId),
                          !.secret_value = sp_secret_value(body.clientId, pk)]
    /\ UNCHANGED <<zendeskVars, poll>>

\* -------------------------------------------- sharepoint/delete-azure-app

\* the request bodies of sharepoint/delete-azure-app: complete, with an
\* empty value, or lacking a key
DelFull ==
    [tenantId |-> "tenant-1", adminAppId |-> "admin-app",
     adminAppSecret |-> "admin-secret", objectId |-> "obj-1"]

DelEvents ==
    EventsOf(DelFull)
        \cup {"body-json" :> [DelFull EXCEPT ![k] = ""] : k \in DOMAIN DelFull}

\* handler of sharepoint/delete-azure-app up to the try: four subscripts of
\* event["body-json"], then the 400 for a falsy value
DelStart(event) ==
    /\ InvFree
    /\ IF ~HasAll(event, {"tenantId", "adminAppId", "adminAppSecret", "objectId"})
       THEN inv' = [InvBegin("sharepoint/delete-azure-app", event) EXCEPT
                      !.pc = "raised", !.err = "KeyError"]
       ELSE LET body == event["body-json"]
            IN  IF \E k \in DOMAIN DelFull : ~Truthy(body[k])
                THEN inv' = [InvBegin("sharepoint/delete-azure-app", event) EXCEPT
                          !.pc = "done", !.body = body,
                               !.resp = [statusCode |-> 400,
                                         body |-> "Missing required parameters"]]
                ELSE inv' = [InvBegin("sharepoint/delete-azure-app", event) EXCEPT
                          !.pc = "graph_delete", !.body = body]
    /\ UNCHANGED <<zendeskVars, poll>>

\* the try block of sharepoint/delete-azure-app: the Graph call succeeds
\* (200) or raises, which the except turns into a 500
DelGraph(fail) ==
    /\ inv.pc = "graph_delete"
    /\ InvReturn(IF fail
                 THEN [statusCode |-> 500, body |-> "Error deleting application"]
                 ELSE [statusCode |-> 200, body |-> "Application deleted"])
    /\ UNCHANGED <<zendeskVars, poll>>

\* ------------------------------------ operations/qbusiness-sync-data-source

\* a or b
Or(a, b) == IF Truthy(a) THEN a ELSE b

\* event.get("body-json", {})
BodyOf(event) == IF "body-json" \in DOMAIN event THEN event["body-json"] ELSE <<>>

\* the names under which the handler accepts its three parameters
SyncKeys ==
    {"qbusinessApplicationId", "applicationId", "qindexId", "indexId",
     "qdatasourceId", "datasourceId", "dataSourceId"}

\* the request events: a body with any of the names, or no body at all
SyncEvents ==
    {"body-json" :> [k \in ks |-> "id-1"] : ks \in SUBSET SyncKeys} \cup {<<>>}

\* application_id, index_id and datasource_id as the handler extracts them
sync_params(body) ==
    [applicationId |-> Or(Get(body, "qbusinessApplicationId"),
                          Get(body, "applicationId")),
     indexId |-> Or(Get(body, "qindexId"), Get(body, "indexId")),
     dataSourceId |-> Or(Get(body, "qdatasourceId"),
                         Or(Get(body, "datasourceId"), Get(body, "dataSourceId")))]

\* the try block up to start_data_source_sync_job: the ValueError raised
\* for a missing parameter is caught by `except Exception`, which answers 500
SyncStart(event) ==
    LET params == sync_params(BodyOf(event))
    IN  /\ InvFree
        /\ IF \E k \in DOMAIN params : ~Truthy(params[k])
           THEN inv' = [InvBegin("qbusiness-sync-data-source", event) EXCEPT
                          !.pc = "done",
                          !.resp = [statusCode |-> 500,
                                    body |-> "Error: Missing required parameters"]]
           ELSE inv' = [InvBegin("qbusiness-sync-data-source", event) EXCEPT
                          !.pc = "start_sync_job", !.body = params]
        /\ UNCHANGED <<zendeskVars, poll>>

\* what start_data_source_sync_job can answer
SyncOutcomes == {"ok", "ConflictException", "error"}

\* start_data_source_sync_job and the response: 200, 409 for a sync in
\* progress, 500 for any other exception
SyncJob(outcome) ==
    /\ inv.pc = "start_sync_job"
    /\ InvReturn(CASE outcome = "ok" ->
                        [statusCode |-> 200,
                         body |-> "Data source sync job started successfully"]
                   [] outcome = "ConflictException" ->
                        [statusCode |-> 409,
                         body |-> "A sync is already in progress for this data source"]
                   [] outcome = "error" ->
                        [statusCode |-> 500, body |-> "Error"])
    /\ UNCHANGED <<zendeskVars, poll>>

\* ------------------------------------------------------ python strings

\* Credential values whose characters matter are sequences of characters;
\* "" is <<>>.

\* s[:n]
Prefix(s, n) == SubSeq(s, 1, IF n < Len(s) THEN n ELSE Len(s))

\* s[-n:]
Suffix(s, n) == SubSeq(s, IF Len(s) - n + 1 > 1 THEN Len(s) - n + 1 ELSE 1, Len(s))

\* needle in hay
Contains(hay, needle) ==
    \E i \in 0..(Len(hay) - Len(needle)) :
        SubSeq(hay, i + 1, i + Len(needle)) = needle

\* a preview that shows one character more at either end
M_masked(s, n) == Prefix(s, n + 1) \o <<".", ".", ".">> \o Suffix(s, n + 1)

\* f"{s[:n]}...{s[-n:]}"
masked(s, n) == Prefix(s, n) \o <<".", ".", ".">> \o Suffix(s, n)

\* -------------------------------------- salesforce/create-connected-app

\* f"qbusiness-salesforce-credentials-{str(uuid.uuid4())[:8]}"
SfSecretNames ==
    {"qbusiness-salesforce-credentials-1a2b3c4d",
     "qbusiness-salesforce-credentials-5e6f7a8b"}

\* the complete request body of salesforce/create-connected-app
CcaFull ==
    [hostUrl |-> "https://acme.my.salesforce.com", username |-> "admin@acme",
     password |-> "sf-pw", securityToken |-> "sf-token",
     connectedAppName |-> "QBusiness", contactEmail |-> "admin@acme.com"]

\* the fields the handler requires
CcaRequired == DOMAIN CcaFull

CcaEvents ==
    EventsOf(CcaFull)
        \cup {"body-json" :> [CcaFull EXCEPT ![k] = ""] : k \in CcaRequired}

\* the fields of `required` that body.get finds absent or falsy
MissingOf(body, required) == {k \in required : ~Truthy(Get(body, k))}

\* the try block up to create_connected_app_with_session_auth: the 400
\* names all six fields whichever of them is missing
CcaStart(event) ==
    /\ InvFree
    /\ IF MissingOf(BodyOf(event), CcaRequired) # {}
       THEN inv' = [InvBegin("salesforce/create-connected-app", event) EXCEPT
                      !.pc = "done",
                      !.resp = [statusCode |-> 400, error |-> "Bad Request",
                                listed |-> {"hostUrl", "username", "password",
                                            "securityToken", "connectedAppName",
                                            "contactEmail"}]]
       ELSE inv' = [InvBegin("salesforce/create-connected-app", event) EXCEPT
                      !.pc = "cca_create", !.body = BodyOf(event)]
    /\ UNCHANGED <<zendeskVars, poll>>

\* create_connected_app_with_session_auth, which catches its own
\* exceptions: success, or a result that the handler answers with 500
CcaCreate(success) ==
    /\ inv.pc = "cca_create"
    /\ IF success
       THEN inv' = [inv EXCEPT !.pc = "cca_store"]
       ELSE InvReturn([statusCode |-> 500,
                       error |-> "Connected App Creation Failed"])
    /\ UNCHANGED <<zendeskVars, poll>>

\* the secret store_initial_salesforce_credentials writes: the consumer key
\* and secret are empty until update-credentials fills them in; the
\* callback URL is that of a production instance and the unique name is
\* the app name followed by eight characters of a uuid
initial_salesforce_credentials(body) ==
    [hostUrl |-> body.hostUrl, username |-> body.username,
     password |-> body.password, securityToken |-> body.securityToken,
     authenticationUrl |-> "https://login.salesforce.com/services/oauth2/token",
     connectedAppName |-> body.connectedAppName,
     appUniqueName |-> <<body.connectedAppName, "_", "1a2b3c4d">>,
     consumerKey |-> "", consumerSecret |-> <<>>]

\* store_initial_salesforce_credentials under the generated name, then the
\* 200; an error of create_secret (the name exists, or `fail`) is raised
\* again and answered with 500 by the handler
CcaStore(name, fail) ==
    /\ inv.pc = "cca_store"
    /\ IF fail \/ name \in DOMAIN secrets
       THEN /\ InvReturn([statusCode |-> 500, error |-> "Internal Server Error"])
            /\ UNCHANGED secrets
       ELSE /\ secrets' = [n \in DOMAIN secrets \cup {name} |->
                              IF n = name
                              THEN initial_salesforce_credentials(inv.body)
                              ELSE secrets[n]]
            /\ InvReturn([statusCode |-> 200, secretName |-> name])
    /\ UNCHANGED <<now, ticks, STATE_TABLE_NAME, nuuid, stateTable, initiated,
                   cbAccepted, ex, succeeded, exDeleted, poll>>

\* ---------------------------------------- salesforce/update-credentials

\* the consumer secrets a request may carry: empty, shorter than eight
\* characters, eight characters, longer
UpdSecrets ==
    {<<>>, <<"s", "e", "c">>,
     <<"s", "e", "c", "r", "e", "t", "0", "1">>,
     <<"s", "e", "c", "r", "X", "Y", "e", "t", "0", "1">>}

\* the fields the handler requires
UpdRequired == {"secretName", "consumerKey", "consumerSecret"}

\* the request bodies with every field, with consumerKey and secretName as
\* strings and consumerSecret as a sequence of characters
UpdFull ==
    {[secretName |-> n, consumerKey |-> "ck-1", consumerSecret |-> cs] :
        n \in SfSecretNames, cs \in UpdSecrets}

UpdEvents ==
    UNION {EventsOf(b) : b \in UpdFull}
        \cup {"body-json" :> [b EXCEPT !.consumerKey = ""] : b \in UpdFull}

\* the required fields that are absent or falsy
UpdMissing(body) ==
    MissingOf(Drop(body, "consumerSecret"), UpdRequired \ {"consumerSecret"})
        \cup {k \in {"consumerSecret"} :
                 k \notin DOMAIN body \/ body[k] = <<>>}

\* the try block up to update_salesforce_credentials: the 400 names all
\* three fields whichever of them is missing
UpdStart(event) ==
    /\ InvFree
    /\ IF UpdMissing(BodyOf(event)) # {}
       THEN inv' = [InvBegin("salesforce/update-credentials", event) EXCEPT
                      !.pc = "done",
                      !.resp = [statusCode |-> 400, error |-> "Bad Request",
                                listed |-> {"secretName", "consumerKey",
                                            "consumerSecret"}]]
       ELSE inv' = [InvBegin("salesforce/update-credentials", event) EXCEPT
                      !.pc = "upd_get", !.body = BodyOf(event)]
    /\ UNCHANGED <<zendeskVars, poll>>

\* update_salesforce_credentials, get_secret_value: the existing
\* credentials, or ResourceNotFoundException (or another error, `fail`),
\* which the function turns into a failed result and the handler into 500
UpdGet(fail) ==
    /\ inv.pc = "upd_get"
    /\ IF fail \/ inv.body.secretName \notin DOMAIN secrets
       THEN InvReturn([statusCode |-> 500, error |-> "Credential Update Failed"])
       ELSE inv' = [inv EXCEPT !.pc = "upd_put",
                               !.secret_name = inv.body.secretName,
                               !.secret_value = secrets[inv.body.secretName]]
    /\ UNCHANGED <<zendeskVars, poll>>

\* the 200 response of update-credentials: the consumer secret appears as
\* its first four and last four characters around "..."
upd_response(body) ==
    [statusCode |-> 200, secretName |-> body.secretName,
     consumerKey |-> body.consumerKey,
     consumerSecret |-> masked(body.consumerSecret, 4)]

\* a merge that keeps nothing but the two fields written
M_credentials_update(existing, consumer_key, consumer_secret) ==
    [consumerKey |-> consumer_key, consumerSecret |-> consumer_secret]

\* existing_credentials.update({"consumerKey": ..., "consumerSecret": ...})
credentials_update(existing, consumer_key, consumer_secret) ==
    [consumerKey |-> consumer_key, consumerSecret |-> consumer_secret]
        @@ existing

\* update_salesforce_credentials, update_secret with the consumer key and
\* secret merged into the credentials read, then the 200
UpdPut(fail) ==
    /\ inv.pc = "upd_put"
    /\ IF fail \/ inv.secret_name \notin DOMAIN secrets
       THEN /\ InvReturn([statusCode |-> 500, error |-> "Credential Update Failed"])
            /\ UNCHANGED secrets
       ELSE /\ secrets' = [secrets EXCEPT ![inv.secret_name] =
                              credentials_update(inv.secret_value,
                                                 inv.body.consumerKey,
                                                 inv.body.consumerSecret)]
            /\ InvReturn(upd_response(inv.body))
    /\ UNCHANGED <<now, ticks, STATE_TABLE_NAME, nuuid, stateTable, initiated,
                   cbAccepted, ex, succeeded, exDeleted, poll>>

\* ------------------------------------------ get_salesforce_credentials

\* a required_fields list that has lost consumerSecret
M_required_fields ==
    {"hostUrl", "username", "password", "securityToken", "consumerKey"}

\* required_fields of get_salesforce_credentials
required_fields ==
    {"hostUrl", "username", "password", "securityToken", "consumerKey",
     "consumerSecret"}

\* a secret of the account that the Salesforce handlers did not write
ForeignSecretName == "qbusiness-servicenow-secret-dev1-cid"

\* complete Salesforce credentials
SfCredentials ==
    [hostUrl |-> "https://acme.my.salesforce.com", username |-> "admin@acme",
     password |-> "sf-pw", securityToken |-> "sf-token", consumerKey |-> "ck-1",
     consumerSecret |-> <<"s", "e", "c", "r", "e", "t", "0", "1">>]

\* what a secret not written by the Salesforce handlers may hold: Salesforce
\* credentials lacking one field, complete ones, or the credentials of
\* another connector; NoneDict stands for ResourceNotFoundException
ForeignSecrets ==
    {Drop(SfCredentials, k) : k \in DOMAIN SfCredentials}
        \cup {SfCredentials, NoneDict,
              [clientId |-> "cid", clientSecret |-> "cs-1",
               username |-> "admin", password |-> "pw-1"]}

\* secretsmanager.get_secret_value and json.loads: the stored document of a
\* secret the handlers wrote, `foreign` for another name
get_secret_value(name, foreign) ==
    IF name \in SfSecretNames
    THEN IF name \in DOMAIN secrets THEN secrets[name] ELSE NoneDict
    ELSE foreign

\* get_salesforce_credentials in create-data-source and test-authentication
\* (the same code): any exception, the ValueError for a missing field
\* included, is raised again and answered by the handler with 404
GetCredentials(foreign) ==
    LET secret_data == get_secret_value(inv.body.secretName, foreign)
    IN  /\ inv.pc = "get_credentials"
        /\ IF secret_data = NoneDict
           THEN InvReturn([statusCode |-> 404, error |-> "Secret Not Found"])
           ELSE IF ~(required_fields \subseteq DOMAIN secret_data)
           THEN inv' = [InvBegin(inv.handler, inv.event) EXCEPT
                          !.pc = "done", !.body = inv.body,
                          !.got = secret_data, !.logs = inv.logs,
                          !.resp = [statusCode |-> 404,
                                    error |-> "Secret Not Found"]]
           ELSE inv' = [inv EXCEPT !.pc = "use_credentials",
                                   !.got = secret_data]
        /\ UNCHANGED <<zendeskVars, poll>>

\* ---------------------------------------- salesforce/test-authentication

\* the secret names a request may carry
TaSecretNames == SfSecretNames \cup {ForeignSecretName}

TaEvents ==
    UNION {EventsOf([secretName |-> n]) : n \in TaSecretNames}
        \cup {"body-json" :> [secretName |-> ""]}

\* the try block up to get_salesforce_credentials
TaStart(event) ==
    /\ InvFree
    /\ IF ~Truthy(Get(BodyOf(event), "secretName"))
       THEN inv' = [InvBegin("salesforce/test-authentication", event) EXCEPT
                      !.pc = "done", !.logs = {event},
                      !.resp = [statusCode |-> 400, error |-> "Bad Request"]]
       ELSE inv' = [InvBegin("salesforce/test-authentication", event) EXCEPT
                      !.pc = "get_credentials", !.body = BodyOf(event),
                      !.logs = {event}]
    /\ UNCHANGED <<zendeskVars, poll>>

Digits == <<"0", "1", "2", "3", "4", "5", "6", "7", "8", "9">>

\* the access tokens Salesforce may issue: twenty characters, and longer
SfAccessTokens == {Digits \o Digits, Digits \o <<"X", "Y">> \o Digits}

\* the 200 response of test-authentication: the access token appears as its
\* first ten and last ten characters around "..."
ta_response(access_token, secret_name) ==
    [statusCode |-> 200, accessToken |-> masked(access_token, 10),
     secretName |-> secret_name]

\* test_salesforce_oauth_authentication and the response: the token request
\* answers 200 with access_token, or fails (access_token = <<>>), which the
\* handler answers with 401; response.text is printed either way
TaAuth(access_token) ==
    /\ inv.pc = "use_credentials"
    /\ inv.handler = "salesforce/test-authentication"
    /\ inv' = [InvBegin(inv.handler, inv.event) EXCEPT
                 !.pc = "done", !.body = inv.body, !.got = inv.got,
                 !.secret_value = [access_token |-> access_token],
                 !.calls = {"salesforce"},
                 !.logs = inv.logs \cup
                     {IF access_token = <<>>
                      THEN [error |-> "invalid_grant"]
                      ELSE [access_token |-> access_token,
                            instance_url |-> inv.got.hostUrl]},
                 !.resp = IF access_token = <<>>
                          THEN [statusCode |-> 401,
                                message |-> "Authentication test failed"]
                          ELSE ta_response(access_token, inv.body.secretName)]
    /\ UNCHANGED <<zendeskVars, poll>>

\* ------------------------------------------ salesforce/create-data-source

\* the fields the handler requires
SdsRequired ==
    {"qBusinessApplicationId", "qBusinessIndexId", "dataSourceName", "secretName"}

\* the optional parameters a request may carry beside the required ones
SdsOptions ==
    {[includeCases |-> FALSE],
     [includeKnowledgeArticles |-> FALSE],
     [includeChatterFeeds |-> TRUE],
     [crawlAttachments |-> FALSE],
     [includeOpportunities |-> FALSE, includeAccounts |-> FALSE,
      includeContacts |-> FALSE],
     [syncMode |-> "FORCED_FULL_CRAWL", includeKnowledgeArticles |-> FALSE,
      includeChatterFeeds |-> FALSE, includeCases |-> FALSE,
      includeOpportunities |-> FALSE, includeAccounts |-> FALSE,
      includeContacts |-> FALSE, crawlAttachments |-> FALSE]}

SdsFull(n) ==
    [qBusinessApplicationId |-> "app-1", qBusinessIndexId |-> "idx-1",
     dataSourceName |-> "sf-ds", secretName |-> n]

SdsEvents ==
    UNION {EventsOf(SdsFull(n)) : n \in TaSecretNames}
        \cup {"body-json" :> (o @@ SdsFull(n)) :
                 n \in TaSecretNames, o \in SdsOptions}

\* the try block up to get_salesforce_credentials; the frame remembers the
\* configuration built by the invocation before it for the same request
SdsStart(event) ==
    /\ InvFree
    /\ IF MissingOf(BodyOf(event), SdsRequired) # {}
       THEN inv' = [InvBegin("salesforce/create-data-source", event) EXCEPT
                      !.pc = "done",
                      !.resp = [statusCode |-> 400, error |-> "Bad Request"]]
       ELSE inv' = [InvBegin("salesforce/create-data-source", event) EXCEPT
                      !.pc = "get_credentials", !.body = BodyOf(event),
                      !.prev = IF /\ inv.handler = "salesforce/create-data-source"
                                  /\ inv.event = event
                                  /\ inv.config # NoneDict
                               THEN [credentials |-> inv.got,
                                     result |-> inv.config]
                               ELSE NoneDict]
    /\ UNCHANGED <<zendeskVars, poll>>

\* body.get(k, default)
GetOr(d, k, default) == IF k \in DOMAIN d THEN d[k] ELSE default

\* the config dict the handler passes to create_salesforce_data_source
sds_config(body) ==
    [syncMode |-> GetOr(body, "syncMode", "FULL_CRAWL"),
     includeKnowledgeArticles |-> GetOr(body, "includeKnowledgeArticles", TRUE),
     includeChatterFeeds |-> GetOr(body, "includeChatterFeeds", FALSE),
     includeCases |-> GetOr(body, "includeCases", TRUE),
     includeOpportunities |-> GetOr(body, "includeOpportunities", TRUE),
     includeAccounts |-> GetOr(body, "includeAccounts", TRUE),
     includeContacts |-> GetOr(body, "includeContacts", TRUE),
     crawlAttachments |-> GetOr(body, "crawlAttachments", TRUE)]

\* an ARN is the sequence of its ":"-separated parts; the resource part of
\* a secret's ARN is <<name, suffix>>, the name followed by the six
\* characters Secrets Manager appends to it
SecretSuffix == "AbCdEf"

secret_arn(resource) ==
    <<"arn", "aws", "secretsmanager", "us-east-1", "111122223333", "secret",
      resource>>

\* get_secret_arn: describe_secret's ARN, or for any exception the ARN
\* put together from region, account and the bare secret name
get_secret_arn(secret_name, described) ==
    IF described
    THEN secret_arn(<<secret_name, SecretSuffix>>)
    ELSE secret_arn(<<secret_name>>)

\* the objects whose crawl flag starts out true
CrawlFlags ==
    {"isCrawlAccount", "isCrawlContact", "isCrawlCase", "isCrawlCampaign",
     "isCrawlProduct", "isCrawlLead", "isCrawlContract", "isCrawlPartner",
     "isCrawlProfile", "isCrawlIdea", "isCrawlPricebook", "isCrawlDocument",
     "isCrawlGroup", "isCrawlOpportunity", "isCrawlChatter", "isCrawlUser",
     "isCrawlSolution", "isCrawlTask", "crawlSharedDocument", "isCrawlAcl"}

AttachmentFlags ==
    {"isCrawlAccountAttachments", "isCrawlContactAttachments",
     "isCrawlCaseAttachments", "isCrawlCampaignAttachments",
     "isCrawlLeadAttachments", "isCrawlContractAttachments",
     "isCrawlGroupAttachments", "isCrawlOpportunityAttachments",
     "isCrawlChatterAttachments", "isCrawlSolutionAttachments",
     "isCrawlTaskAttachments", "isCrawlCustomEntityAttachments"}

PatternObjects ==
    {"Document", "Account", "Campaign", "Case", "Contact", "Contract", "Lead",
     "Opportunity", "Solution", "Task", "Group", "Chatter", "CustomEntity"}

\* the additional_properties dict literal; the inclusion patterns
\* inclusion<Object>FileTypePatterns and inclusion<Object>FileNamePatterns
\* are kept as two maps from the object to its pattern list
initial_additional_properties ==
    [k \in CrawlFlags \cup AttachmentFlags |-> TRUE]
        @@ [isCrawlKnowledgeArticles |->
                [isCrawlDraft |-> TRUE, isCrawlPublish |-> TRUE,
                 isCrawlArchived |-> TRUE],
            inclusionFileTypePatterns |-> [o \in PatternObjects |-> <<".*">>],
            inclusionFileNamePatterns |-> [o \in PatternObjects |-> <<".*">>],
            maxFileSizeInMegaBytes |-> "50"]

\* the field mappings of a repository configuration
field_mappings(title, text) ==
    (IF title = None THEN <<>>
     ELSE <<[dataSourceFieldName |-> title,
             indexFieldName |-> "_document_title",
             indexFieldType |-> "STRING"]>>)
    \o <<[dataSourceFieldName |-> text, indexFieldName |-> "_document_body",
          indexFieldType |-> "STRING"]>>

\* the six `if config.get(...)` blocks as rows: the option, the key under
\* repository_configs, the two mapped fields, the crawl flag and the
\* attachment flag the block assigns (None where it assigns none)
ObjectBlocks ==
    {<<"includeKnowledgeArticles", "knowledgeArticles", "Title", "Summary",
       None, None>>,
     <<"includeCases", "case", "Subject", "Description",
       "isCrawlCase", "isCrawlCaseAttachments">>,
     <<"includeOpportunities", "opportunity", "Name", "Description",
       "isCrawlOpportunity", "isCrawlOpportunityAttachments">>,
     <<"includeAccounts", "account", "Name", "Description",
       "isCrawlAccount", "isCrawlAccountAttachments">>,
     <<"includeContacts", "contact", "Name", "Description",
       "isCrawlContact", "isCrawlContactAttachments">>,
     <<"includeChatterFeeds", "chatter", None, "Body",
       "isCrawlChatter", "isCrawlChatterAttachments">>}

\* repository_configs after the six blocks
repository_configs(config) ==
    LET taken == {b \in ObjectBlocks : config[b[1]]}
    IN  [k \in {b[2] : b \in taken} |->
            LET b == CHOOSE b \in taken : b[2] = k
            IN  [fieldMappings |-> field_mappings(b[3], b[4])]]

\* additional_properties after the six blocks: every assignment of a block
\* sets to True a flag the literal already holds as True, except that the
\* knowledge article block replaces the statuses crawled
additional_properties(config) ==
    LET taken == {b \in ObjectBlocks : config[b[1]]}
        set == {b[5] : b \in taken}
                 \cup {b[6] : b \in {t \in taken : config.crawlAttachments}}
    IN  [k \in DOMAIN initial_additional_properties |->
            IF k \in set \ {None} THEN TRUE
            ELSE IF k = "isCrawlKnowledgeArticles"
                    /\ config.includeKnowledgeArticles
            THEN [isCrawlDraft |-> TRUE, isCrawlPublish |-> TRUE,
                  isCrawlArchived |-> FALSE]
            ELSE initial_additional_properties[k]]

\* build_salesforce_configuration; `described` tells whether its
\* describe_secret call answered
build_salesforce_configuration(credentials, secret_name, config, described) ==
    [type |-> "SALESFORCE",
     connectionConfiguration |->
         [repositoryEndpointMetadata |-> [hostUrl |-> credentials.hostUrl]],
     repositoryConfigurations |-> repository_configs(config),
     additionalProperties |-> additional_properties(config),
     secretArn |-> get_secret_arn(secret_name, described),
     syncMode |-> config.syncMode]

\* create_salesforce_data_source, which catches its own exceptions, and the
\* response: 200, or 500 for a failed result; without DATA_SOURCE_ROLE_ARN
\* nothing is built and no service is called
SdsCreate(role, described, success) ==
    LET cfg == build_salesforce_configuration(
                   inv.got, inv.body.secretName, sds_config(inv.body),
                   described)
    IN  /\ inv.pc = "use_credentials"
        /\ inv.handler = "salesforce/create-data-source"
        /\ inv' = [InvBegin(inv.handler, inv.event) EXCEPT
                     !.pc = "done", !.body = inv.body, !.got = inv.got,
                     !.prev = inv.prev,
                     !.config = IF role THEN cfg ELSE NoneDict,
                     !.calls = IF role THEN {"secretsmanager", "qbusiness"}
                               ELSE {},
                     !.logs = IF role /\ ~described
                              THEN {[warning |-> "Could not get secret ARN"]}
                              ELSE {},
                     !.resp = IF role /\ success
                              THEN [statusCode |-> 200,
                                    secretName |-> inv.body.secretName]
                              ELSE [statusCode |-> 500,
                                    error |-> "Data Source Creation Failed"]]
        /\ UNCHANGED <<zendeskVars, poll>>

\* ------------------------------------------- zendesk/create-data-source

ZdsFull ==
    [qbusinessApplicationId |-> "app-1", qindexId |-> "idx-1",
     zendeskSubdomain |-> "acme", clientId |-> "zd-7"]

\* the values of dataSourceType a request may carry: the three documented
\* ones, one in another spelling, and JSON null
ZdsTypes == {"GUIDE", "SUPPORT", "BOTH", "both", None}

ZdsEvents ==
    EventsOf(ZdsFull)
        \cup {"body-json" :> (ZdsFull @@ [dataSourceType |-> t]) : t \in ZdsTypes}
        \cup {"body-json" :> [applicationId |-> "app-1", indexId |-> "idx-1",
                              zendeskSubdomain |-> "acme", clientId |-> "zd-7",
                              dataSourceName |-> "Zendesk Guide Articles",
                              dataSourceType |-> "GUIDE"]}

\* the parameters the handler reads from the body
zds_params(body) ==
    [application_id |-> Or(Get(body, "qbusinessApplicationId"),
                           Get(body, "applicationId")),
     index_id |-> Or(Get(body, "qindexId"), Get(body, "indexId")),
     data_source_name |-> Get(body, "dataSourceName"),
     zendesk_subdomain |-> Get(body, "zendeskSubdomain"),
     data_source_type |-> GetOr(body, "dataSourceType", "BOTH"),
     client_id |-> Get(body, "clientId")]

\* the try block up to find_secret_arn_by_subdomain, whose first line
\* splits the client id and raises for a request without one
ZdsStart(event) ==
    LET p == zds_params(BodyOf(event))
        begun == [InvBegin("zendesk/create-data-source", event) EXCEPT
                    !.body = BodyOf(event), !.logs = {event}]
    IN  /\ InvFree
        /\ IF \/ ~Truthy(p.application_id) \/ ~Truthy(p.index_id)
              \/ ~Truthy(p.zendesk_subdomain)
           THEN inv' = [begun EXCEPT
                          !.pc = "done",
                          !.resp = [statusCode |-> 400, error |-> "Bad Request"]]
           ELSE IF p.client_id = None
           THEN inv' = [begun EXCEPT
                          !.pc = "done", !.err = "AttributeError",
                          !.resp = [statusCode |-> 500,
                                    error |-> "Internal Server Error"]]
           ELSE inv' = [begun EXCEPT
                          !.pc = "zds_find",
                          !.secret_name =
                              <<"qbusiness-zendesk-secret", p.zendesk_subdomain,
                                Split(p.client_id)[Len(Split(p.client_id))]>>]
        /\ UNCHANGED <<zendeskVars, poll>>

\* how find_secret_arn_by_subdomain ends: with the ARN of the secret
\* described, with the ARN of a listed secret whose name holds the
\* subdomain, or with None
ZdsFound == {"described", "listed", None}

\* find_secret_arn_by_subdomain and the two checks after it
ZdsFind(found, role) ==
    /\ inv.pc = "zds_find"
    /\ IF found = None
       THEN inv' = [inv EXCEPT
                      !.pc = "done", !.calls = {"secretsmanager"},
                      !.resp = [statusCode |-> 400, error |-> "Bad Request"]]
       ELSE IF ~role
       THEN inv' = [inv EXCEPT
                      !.pc = "done", !.calls = {"secretsmanager"},
                      !.resp = [statusCode |-> 500,
                                error |-> "Internal Server Error"]]
       ELSE inv' = [inv EXCEPT
                      !.pc = "zds_create", !.calls = {"secretsmanager"},
                      !.got = [ARN |-> secret_arn(
                                  <<IF found = "described"
                                    THEN inv.secret_name
                                    ELSE <<"zendesk-oauth-token", "acme", "1">>,
                                    SecretSuffix>>)]]
    /\ UNCHANGED <<zendeskVars, poll>>

\* str(b).lower()
str_lower(b) == IF b THEN "true" ELSE "false"

\* generate_zendesk_configuration; the repository configurations are the
\* same for every call and are kept by their keys
generate_zendesk_configuration(arn, zendesk_subdomain, data_source_type) ==
    LET crawl_article == data_source_type = "GUIDE" \/ data_source_type = "BOTH"
        crawl_ticket == data_source_type = "SUPPORT" \/ data_source_type = "BOTH"
    IN  [connectionConfiguration |->
             [repositoryEndpointMetadata |->
                  [hostUrl |-> <<"https://", zendesk_subdomain, ".zendesk.com/">>,
                   authType |-> "Oauth2-ImplicitGrantFlow"]],
         additionalProperties |->
             [organizationNameFilter |-> <<>>,
              sinceDate |-> None,
              isCrawTicket |-> str_lower(crawl_ticket),
              isCrawTicketComment |-> str_lower(crawl_ticket),
              isCrawTicketCommentAttachment |-> "false",
              isCrawlArticle |-> str_lower(crawl_article),
              isCrawlArticleAttachment |-> "false",
              isCrawlArticleComment |-> "false",
              isCrawlCommunityTopic |-> "false",
              isCrawlCommunityPost |-> "false",
              isCrawlCommunityPostComment |-> "false",
              isCrawlAcl |-> TRUE,
              fieldForUserId |-> "uuid",
              inclusionPatterns |-> <<>>,
              exclusionPatterns |-> <<>>,
              maxFileSizeInMegaBytes |-> "50",
              includeSupportedFileType |-> FALSE,
              enableDeletionProtection |-> FALSE,
              deletionProtectionThreshold |-> "0"],
         enableIdentityCrawler |-> TRUE,
         syncMode |-> "FORCED_FULL_CRAWL",
         type |-> "ZENDESK",
         secretArn |-> arn,
         repositoryConfigurations |-> {"ticket", "ticketComment", "article"}]

\* create_data_source and the response: 200, or 500 when
\* qbusiness.create_data_source raises
ZdsCreate(fail) ==
    LET p == zds_params(inv.body)
    IN  /\ inv.pc = "zds_create"
        /\ inv' = [inv EXCEPT
                     !.pc = "done",
                     !.calls = inv.calls \cup {"qbusiness"},
                     !.config = generate_zendesk_configuration(
                                    inv.got.ARN, p.zendesk_subdomain,
                                    p.data_source_type),
                     !.updated = ~fail,
                     !.resp = IF fail
                              THEN [statusCode |-> 500,
                                    error |-> "Internal Server Error"]
                              ELSE [statusCode |-> 200, status |-> "CREATING"]]
        /\ UNCHANGED <<zendeskVars, poll>>

\* ------------------------------------------------ qbusiness-sync-summary

SumFull ==
    [qbusinessApplicationId |-> "app-1", qindexId |-> "idx-1",
     qdatasourceId |-> "ds-1"]

\* the request events: the complete body and what EventsOf makes of it,
\* the same parameters under their other names, and a `since` that is not
\* a number
SumEvents ==
    EventsOf(SumFull)
        \cup {"body-json" :> [applicationId |-> "app-1", indexId |-> "idx-1",
                              dataSourceId |-> "ds-1"],
              [since |-> "abc"] @@ ("body-json" :> SumFull),
              [since |-> "24"] @@ ("body-json" :> SumFull)}

\* application_id, index_id and data_source_id as the handler extracts them
summary_params(body) ==
    [applicationId |-> Or(Get(body, "qbusinessApplicationId"),
                          Get(body, "applicationId")),
     indexId |-> Or(Get(body, "qindexId"), Get(body, "indexId")),
     dataSourceId |-> Or(Get(body, "qdatasourceId"),
                         Or(Get(body, "datasourceId"), Get(body, "dataSourceId")))]

\* int(since) raises ValueError for a string that is not a number
IsNumber(since) == since \in {"5", "24"}

\* the try block up to list_data_source_sync_jobs: the 400 for missing
\* parameters, and the 500 of `except Exception` for int(since)
SumStart(event) ==
    LET params == summary_params(BodyOf(event))
        since == GetOr(event, "since", "5")
        begun == [InvBegin("qbusiness-sync-summary", event) EXCEPT
                    !.logs = {event}]
    IN  /\ InvFree
        /\ IF \E k \in DOMAIN params : ~Truthy(params[k])
           THEN inv' = [begun EXCEPT
                          !.pc = "done",
                          !.resp = [statusCode |-> 400,
                                    error |-> "Missing Required Parameters"]]
           ELSE IF ~IsNumber(since)
           THEN inv' = [begun EXCEPT
                          !.pc = "done", !.err = "ValueError",
                          !.resp = [statusCode |-> 500,
                                    error |-> "Internal Server Error"]]
           ELSE inv' = [begun EXCEPT !.pc = "list_sync_jobs", !.body = params]
        /\ UNCHANGED <<zendeskVars, poll>>

\* what list_data_source_sync_jobs can answer: a response with its history
\* (of none or one sync job), a response without the member "history", or
\* an exception
SumOutcomes ==
    {[history |-> <<>>],
     [history |-> <<[executionId |-> "job-1", status |-> "SUCCEEDED"]>>],
     [nextToken |-> "t-1"],
     NoneDict}

\* list_data_source_sync_jobs and the response: 200 with the history; the
\* KeyError of json.loads(json_data)["history"] is answered by
\* `except KeyError` with 400, any other exception with 500
SumList(response) ==
    /\ inv.pc = "list_sync_jobs"
    /\ inv' = [inv EXCEPT
                 !.pc = "done",
                 !.calls = {"qbusiness"},
                 !.err = IF response # NoneDict /\ "history" \notin DOMAIN response
                         THEN "KeyError" ELSE None,
                 !.resp = IF response = NoneDict
                          THEN [statusCode |-> 500,
                                error |-> "Internal Server Error"]
                          ELSE IF "history" \notin DOMAIN response
                          THEN [statusCode |-> 400,
                                error |-> "Missing Required Parameter"]
                          ELSE [statusCode |-> 200,
                                metrics |-> response.history]]
    /\ UNCHANGED <<zendeskVars, poll>>

\* ------------------------------- salesforce/setup-salesforce-actions-plugin

PlgFull ==
    [clientId |-> "ck-1", clientSecret |-> "cs-1",
     redirectUrl |-> "https://q.example/oauth/callback",
     salesforceDomainUrl |-> "https://acme.my.salesforce.com/",
     qBusinessApplicationId |-> "app-1"]

PlgRequired == DOMAIN PlgFull

PlgEvents ==
    EventsOf(PlgFull)
        \cup {"body-json" :> ([pluginName |-> "CRM",
                               salesforceDomainUrl |->
                                   "https://acme.my.salesforce.com/services/data/v60.0"]
                                  @@ PlgFull)}

\* the name store_salesforce_actions_credentials makes up: the prefix and
\* eight characters of a uuid
PlgSecretNames == {<<"QBusiness-Salesforce_crm-plugin", "1a2b3c4d">>}

\* the try block up to store_salesforce_actions_credentials
PlgStart(event) ==
    /\ InvFree
    /\ IF MissingOf(BodyOf(event), PlgRequired) # {}
       THEN inv' = [InvBegin("salesforce/setup-salesforce-actions-plugin", event)
                      EXCEPT !.pc = "done", !.logs = {event},
                             !.resp = [statusCode |-> 400,
                                       error |-> "Bad Request"]]
       ELSE inv' = [InvBegin("salesforce/setup-salesforce-actions-plugin", event)
                      EXCEPT !.pc = "plg_store", !.logs = {event},
                             !.body = BodyOf(event)]
    /\ UNCHANGED <<zendeskVars, poll>>

\* salesforce_domain_url.rstrip('/') with '/services/data/v60.0' appended
\* unless it ends with it, on the URLs of the model
server_url(url) ==
    CASE url = "https://acme.my.salesforce.com/"
           -> "https://acme.my.salesforce.com/services/data/v60.0"
      [] url = "https://acme.my.salesforce.com/services/data/v60.0"
           -> "https://acme.my.salesforce.com/services/data/v60.0"
      [] OTHER -> url

\* store_salesforce_actions_credentials: create_secret under the new name;
\* its exception is raised again and answered with 500
PlgStore(name, fail) ==
    /\ inv.pc = "plg_store"
    /\ IF fail \/ name \in DOMAIN secrets
       THEN /\ inv' = [inv EXCEPT
                         !.pc = "done", !.calls = {"secretsmanager"},
                         !.resp = [statusCode |-> 500,
                                   error |-> "Internal Server Error"]]
            /\ UNCHANGED secrets
       ELSE /\ secrets' = [n \in DOMAIN secrets \cup {name} |->
                              IF n = name
                              THEN [client_id |-> inv.body.clientId,
                                    client_secret |-> inv.body.clientSecret,
                                    redirect_uri |-> inv.body.redirectUrl]
                              ELSE secrets[n]]
            /\ inv' = [inv EXCEPT !.pc = "plg_create", !.secret_name = name,
                                  !.calls = {"secretsmanager"}]
    /\ UNCHANGED <<now, ticks, STATE_TABLE_NAME, nuuid, stateTable, initiated,
                   cbAccepted, ex, succeeded, exDeleted, poll>>

\* create_salesforce_actions_plugin, which catches its own exceptions (the
\* missing PLUGIN_SERVICE_ROLE_ARN, an error of create_plugin), and the
\* response
PlgCreate(role, described, success) ==
    /\ inv.pc = "plg_create"
    /\ inv' = [inv EXCEPT
                 !.pc = "done",
                 !.calls = IF role THEN {"secretsmanager", "qbusiness"}
                           ELSE {"secretsmanager"},
                 !.config =
                     IF role
                     THEN [displayName |-> GetOr(inv.body, "pluginName",
                                                 "Salesforce-Actions-Plugin"),
                           type |-> "SALESFORCE_CRM",
                           secretArn |-> get_secret_arn(inv.secret_name, described),
                           serverUrl |-> server_url(inv.body.salesforceDomainUrl)]
                     ELSE NoneDict,
                 !.resp = IF role /\ success
                          THEN [statusCode |-> 200,
                                secretName |-> inv.secret_name,
                                clientId |-> inv.body.clientId]
                          ELSE [statusCode |-> 500,
                                error |-> "Salesforce Actions Plugin Creation Failed",
                                secretName |-> inv.secret_name]]
    /\ UNCHANGED <<zendeskVars, poll>>

\* ------------------------------------------------- list-applications

\* the two copies of the handler
ListHandlers == {"operations/qbusiness-list-applications", "servicenow/qbusiness"}

\* a data source as list_data_sources describes it
DataSource(n) ==
    [displayName |-> <<"data source", n>>, dataSourceId |-> n,
     type |-> "ZENDESK", status |-> "ACTIVE"]

\* the result pages list_data_sources may give for an index; a paginator
\* makes at least one request, so there is at least one page
PageLists ==
    {<< <<>> >>,
     << <<DataSource(1)>> >>,
     << <<DataSource(1), DataSource(2)>> >>,
     << <<DataSource(1)>>, <<DataSource(2)>> >>,
     << <<DataSource(1)>>, <<>> >>,
     << <<DataSource(1)>>, <<DataSource(2)>>, <<DataSource(3)>> >>}

\* the control plane: two applications on two result pages of
\* list_applications, the first with two indices, the second with none, and
\* the result pages of each index's data sources
ControlPlanes ==
    {[applications |->
          << <<[applicationId |-> "app-1", displayName |-> "Helpdesk"]>>,
             <<[applicationId |-> "app-2", displayName |-> "Empty"]>> >>,
      indices |-> [a \in {"app-1", "app-2"} |->
                      IF a = "app-1"
                      THEN <<[indexId |-> "idx-1"], [indexId |-> "idx-2"]>>
                      ELSE <<>>],
      dataSources |-> [i \in {"idx-1", "idx-2"} |->
                          IF i = "idx-1" THEN p1 ELSE p2]] :
        p1 \in PageLists, p2 \in PageLists}

\* the items of all pages, page after page
RECURSIVE Flatten(_)
Flatten(pages) ==
    IF pages = <<>> THEN <<>> ELSE Head(pages) \o Flatten(Tail(pages))

\* the dict the handler makes of a data source
data_source_info(data_source) ==
    [dataSourceName |-> data_source.displayName,
     dataSourceId |-> data_source.dataSourceId,
     dataSourceType |-> data_source.type,
     dataSourceStatus |-> data_source.status]

\* the list appended to while the pages of one index are read: the
\* servicenow copy creates it before the loop over the pages, the
\* operations copy creates it anew for every page
index_data_sources(h, pages) ==
    LET read == IF h = "servicenow/qbusiness" THEN Flatten(pages)
                ELSE pages[Len(pages)]
    IN  [n \in 1..Len(read) |-> data_source_info(read[n])]

\* the result dict of one application
application_result(h, plane, app) ==
    LET indices == plane.indices[app.applicationId]
    IN  [qbusinessApplicationId |-> app.applicationId,
         qbusinessApplicationName |-> app.displayName,
         indices |->
             [n \in 1..Len(indices) |->
                 [indexId |-> indices[n].indexId,
                  dataSources |->
                      index_data_sources(
                          h, plane.dataSources[indices[n].indexId])]]]

\* handler entry: the paginators are made, nothing is called yet
ListStart(h, plane) ==
    /\ InvFree
    /\ inv' = [InvBegin(h, <<>>) EXCEPT !.pc = "list_app", !.got = plane]
    /\ UNCHANGED <<zendeskVars, poll>>

\* one round of the loop over the applications: list_indices and the
\* pages of list_data_sources of every index; an exception of any call
\* ends the invocation with 500
ListApp(fail) ==
    LET apps == Flatten(inv.got.applications)
    IN  /\ inv.pc = "list_app"
        /\ Len(inv.acc) < Len(apps)
        /\ IF fail
           THEN inv' = [inv EXCEPT
                          !.pc = "done", !.calls = {"qbusiness"}, !.acc = <<>>,
                          !.resp = [statusCode |-> 500,
                                    error |-> "Internal Server Error"]]
           ELSE inv' = [inv EXCEPT
                          !.calls = {"qbusiness"},
                          !.acc = Append(inv.acc,
                                         application_result(
                                             inv.handler, inv.got,
                                             apps[Len(inv.acc) + 1]))]
        /\ UNCHANGED <<zendeskVars, poll>>

\* the 200 response after the last application
ListReturn ==
    /\ inv.pc = "list_app"
    /\ Len(inv.acc) = Len(Flatten(inv.got.applications))
    /\ inv' = [inv EXCEPT
                 !.pc = "done", !.acc = <<>>,
                 !.resp = [statusCode |-> 200, applications |-> inv.acc]]
    /\ UNCHANGED <<zendeskVars, poll>>

\* ---------------------------------------------------- simple-authorizer

\* A methodArn is modelled by its segments: methodArn.split(":") is the
\* sequence of six parts, the last of which is its own split("/"), the
\* sequence <<restApiId, stage, method, path segments...>>.

Stages == {"prod", "dev"}
Methods == {"GET", "POST"}

\* the resource paths of the API, as their segments; <<>> is the root
ResourcePaths ==
    {<<>>, <<"zendesk-oauth-callback">>,
     <<"zendesk-exchange-auth-code-for-token">>,
     <<"zendesk-oauth-callback", "admin">>,
     <<"qbusiness-sync-data-source">>,
     <<"admin", "zendesk-oauth-callback">>}

MethodArns ==
    {<<"arn", "aws", "execute-api", "us-east-1", "123456789012",
       <<"api-1", stage, method>> \o path>> :
        stage \in Stages, method \in Methods, path \in ResourcePaths}

\* the value the authorizer looks for in the User-Agent header
DesignatedAgent == "Apache-HttpClient (Java/17.0.15)"

\* event["headers"] when the event has the key: null, empty, or a dict
HeaderValues ==
    {NoneDict, <<>>,
     [Accept |-> "*/*"],
     "User-Agent" :> DesignatedAgent,
     "User-Agent" :> "curl/8.4.0",
     "user-agent" :> DesignatedAgent}

\* the authorizer events: with headers, or without the key
AuthEvents ==
    {[methodArn |-> arn, headers |-> h] : arn \in MethodArns, h \in HeaderValues}
        \cup {[methodArn |-> arn] : arn \in MethodArns}

\* an allow-list that has lost the token exchange endpoint
M_allow_list == {"zendesk-oauth-callback"}

\* the resources that are always allowed
allow_list == {"zendesk-oauth-callback", "zendesk-exchange-auth-code-for-token"}

\* resource: apiGatewayArnTmp[3] when the ARN has a path, "/" otherwise
resource_of(methodArn) ==
    LET apiGatewayArnTmp == methodArn[6]
    IN  IF Len(apiGatewayArnTmp) > 3 THEN apiGatewayArnTmp[4] ELSE "/"

\* generatePolicy(principalId, effect, resource) for a non-empty resource
generatePolicy(principalId, effect, resource) ==
    [principalId |-> principalId, Effect |-> effect, Resource |-> resource,
     Action |-> "execute-api:Invoke"]

\* headers and "User-Agent" in headers and headers["User-Agent"] == ...
header_match(headers) ==
    /\ TruthyDict(headers)
    /\ "User-Agent" \in DOMAIN headers
    /\ headers["User-Agent"] = DesignatedAgent

\* lambda_handler: the allow-list, then event["headers"], which raises
\* KeyError for an event without the key, then the User-Agent test
Authorize(event) ==
    /\ InvFree
    /\ inv' =
         IF resource_of(event.methodArn) \in allow_list
         THEN [InvBegin("simple-authorizer", event) EXCEPT
                 !.pc = "done",
                 !.resp = generatePolicy("me", "Allow", event.methodArn)]
         ELSE IF "headers" \notin DOMAIN event
         THEN [InvBegin("simple-authorizer", event) EXCEPT
                      !.pc = "raised", !.err = "KeyError"]
         ELSE IF header_match(event.headers)
         THEN [InvBegin("simple-authorizer", event) EXCEPT
                 !.pc = "done",
                 !.resp = generatePolicy("me", "Allow", event.methodArn)]
         ELSE [InvBegin("simple-authorizer", event) EXCEPT
                 !.pc = "done",
                 !.resp = generatePolicy("me", "Deny", event.methodArn)]
    /\ UNCHANGED <<zendeskVars, poll>>

\* ------------------------------------ store_credentials_in_secrets_manager

\* what create_secret can answer besides success and ResourceExistsException
CreateErrors == {None, "AccessDeniedException"}

\* SecretsManager.create_secret for a name that is free
create_secret(store, name, value) ==
    [n \in DOMAIN store \cup {name} |-> IF n = name THEN value ELSE store[n]]

\* an update_secret that leaves the stored value as it was
M_update_secret(store, name, value) == store

\* SecretsManager.update_secret for a name that exists
update_secret(store, name, value) == [store EXCEPT ![name] = value]

\* client.create_secret(Name=secret_name, ...): ResourceExistsException when
\* the name is taken, which the except branch turns into update_secret; any
\* other ClientError is raised again. The code is the same in
\* servicenow/create-data-source and sharepoint/create-data-source.
StoreCreate(err) ==
    /\ inv.pc = "create_secret"
    /\ IF err # None
       THEN InvRaise(err) /\ UNCHANGED secrets
       ELSE IF inv.secret_name \in DOMAIN secrets
            THEN /\ inv' = [inv EXCEPT !.pc = "update_secret"]
                 /\ UNCHANGED secrets
            ELSE /\ secrets' = create_secret(secrets, inv.secret_name,
                                             inv.secret_value)
                 /\ inv' = [inv EXCEPT !.pc = "create_data_source"]
    /\ UNCHANGED <<now, ticks, STATE_TABLE_NAME, nuuid, stateTable, initiated,
                   cbAccepted, ex, succeeded, exDeleted, poll>>

\* client.update_secret(SecretId=secret_name, SecretString=secret_value) in
\* the except branch; `fail` is an error of Secrets Manager, which leaves
\* the function and the handler
StoreUpdate(fail) ==
    /\ inv.pc = "update_secret"
    /\ IF fail \/ inv.secret_name \notin DOMAIN secrets
       THEN InvRaise("ClientError") /\ UNCHANGED secrets
       ELSE /\ secrets' = update_secret(secrets, inv.secret_name,
                                        inv.secret_value)
            /\ inv' = [inv EXCEPT !.pc = "create_data_source",
                                  !.updated = TRUE]
    /\ UNCHANGED <<now, ticks, STATE_TABLE_NAME, nuuid, stateTable, initiated,
                   cbAccepted, ex, succeeded, exDeleted, poll>>

\* create_data_source and the 200 response; `fail` is an error of the
\* Q Business control plane, which leaves the handler
CreateDataSource(fail) ==
    /\ inv.pc = "create_data_source"
    /\ IF fail
       THEN InvRaise("ClientError")
       ELSE InvReturn([statusCode |-> 200,
                       body |-> "QBusiness Data Source has been created"])
    /\ UNCHANGED <<zendeskVars, poll>>

\* -------------------------------------------------------- specifications

ZendeskInit ==
    /\ now = 0
    /\ ticks = 0
    /\ STATE_TABLE_NAME \in {"zendesk-oauth-state", None}
    /\ nuuid = 0
    /\ stateTable = <<>>
    /\ secrets = <<>>
    /\ initiated = <<>>
    /\ cbAccepted = {}
    /\ ex = [i \in Slots |-> IdleFrame]
    /\ succeeded = {}
    /\ exDeleted = {}

Init == ZendeskInit /\ poll = PollIdle /\ inv = InvIdle

\* the steps of the handlers, with exchange invocations in `slots` and
\* initiate-oauth-flow requests from `bodies`
Steps(slots, bodies) ==
    \/ \E d \in TickSteps : Tick(d)
    \/ \E body \in bodies : Initiate(body)
    \/ \E event \in CallbackEvents : Callback(event)
    \/ \E i \in slots, body \in ExchangeBodies : ExStart(i, body)
    \/ \E i \in slots, outcome \in TokenOutcomes : ExToken(i, outcome)
    \/ \E i \in slots : ExDescribe(i)
    \/ \E i \in slots, fail \in BOOLEAN : ExUpdate(i, fail)
    \/ \E i \in slots, fail \in BOOLEAN : ExCreate(i, fail)
    \/ \E i \in slots : ExDelete(i)

\* the requests of one integration instance, complete or lacking a field
FlowBodies ==
    {b \in InitiateBodies :
        /\ "clientId" \in DOMAIN b => b.clientId = "amazon-q-business-1750882988"
        /\ "clientSecret" \in DOMAIN b => b.clientSecret # ""
        /\ {"clientId", "zendeskSubdomain"} \subseteq DOMAIN b}

Next == Steps(Slots, FlowBodies)

Spec == Init /\ [][Next]_vars

SeqNext == Steps({1}, InitiateBodies)

SeqSpec == Init /\ [][SeqNext]_vars

PollLoopAny == \E outcome \in PollOutcomes : PollLoop(outcome)

PollNext ==
    \/ \E since_ok \in BOOLEAN, start_ok \in BOOLEAN : PollStart(since_ok, start_ok)
    \/ PollLoopAny
    \/ PollExit

PollSpec == Init /\ [][PollNext]_vars

\* the create-data-source handlers of ServiceNow and SharePoint and
\* sharepoint/delete-azure-app, one invocation at a time over one Secrets
\* Manager store
DsNext ==
    \/ \E event \in SnEvents : SnStart(event)
    \/ \E event \in SpEvents, pk \in PrivateKeys \cup {None} : SpStart(event, pk)
    \/ \E event \in DelEvents : DelStart(event)
    \/ \E err \in CreateErrors : StoreCreate(err)
    \/ \E fail \in BOOLEAN : StoreUpdate(fail)
    \/ \E fail \in BOOLEAN : CreateDataSource(fail)
    \/ \E fail \in BOOLEAN : DelGraph(fail)
    \/ \E event \in OaEvents : OaStart(event)
    \/ \E client_secret \in OaSecrets, fail \in BOOLEAN :
           OaInsert(client_secret, fail)
    \/ \E event \in ZdsEvents : ZdsStart(event)
    \/ \E found \in ZdsFound, role \in BOOLEAN :
           ZdsFind(found, role)
    \/ \E fail \in BOOLEAN : ZdsCreate(fail)

DsSpec == Init /\ [][DsNext]_vars

\* the handlers that validate the parameters of their request
ParamNext ==
    \/ \E event \in SyncEvents : SyncStart(event)
    \/ \E outcome \in SyncOutcomes : SyncJob(outcome)
    \/ \E event \in SumEvents : SumStart(event)
    \/ \E response \in SumOutcomes : SumList(response)
    \/ \E event \in PlgEvents : PlgStart(event)
    \/ \E name \in PlgSecretNames, fail \in BOOLEAN : PlgStore(name, fail)
    \/ \E role, described, success \in BOOLEAN :
           PlgCreate(role, described, success)

ParamSpec == Init /\ [][ParamNext]_vars

\* the Salesforce handlers, one invocation at a time over one Secrets
\* Manager store
SfNext ==
    \/ \E event \in CcaEvents : CcaStart(event)
    \/ \E success \in BOOLEAN : CcaCreate(success)
    \/ \E name \in SfSecretNames, fail \in BOOLEAN : CcaStore(name, fail)
    \/ \E event \in UpdEvents : UpdStart(event)
    \/ \E fail \in BOOLEAN : UpdGet(fail)
    \/ \E fail \in BOOLEAN : UpdPut(fail)
    \/ \E event \in TaEvents : TaStart(event)
    \/ \E event \in SdsEvents : SdsStart(event)
    \/ \E foreign \in ForeignSecrets : GetCredentials(foreign)
    \/ \E access_token \in SfAccessTokens \cup {<<>>} : TaAuth(access_token)
    \/ \E role, described, success \in BOOLEAN :
          SdsCreate(role, described, success)

SfSpec == Init /\ [][SfNext]_vars

\* the authorizer, one request after another
ListNext ==
    \/ \E h \in ListHandlers, plane \in ControlPlanes : ListStart(h, plane)
    \/ \E fail \in BOOLEAN : ListApp(fail)
    \/ ListReturn

ListSpec == Init /\ [][ListNext]_vars

AuthNext == \E event \in AuthEvents : Authorize(event)

AuthSpec == Init /\ [][AuthNext]_vars

\* ---------------------------------------------------------------- claims

InvalidState == Resp(400, "Invalid State")

\* the invocations that passed the state check and have not returned
PastCheck(s) ==
    {i \in Slots : ex[i].state = s
                   /\ ex[i].pc \in {"token", "describe", "create", "update",
                                    "delete"}}

\* C1 as claimed: an exchange invocation for a state token for which an
\* exchange has already succeeded returns 400 Invalid State, and neither
\* posts to the token endpoint nor writes a secret, whatever ran in between.
CE_C1 ==
    \A i \in Slots :
        ex[i].later => /\ ex[i].pc = "done"
                       /\ ex[i].resp = InvalidState
                       /\ ~ex[i].tokenReq
                       /\ ~ex[i].wrote

\* C1 as amended: such an invocation returns 400 Invalid State when its
\* request carries a code and 400 Missing Required Parameters when it does
\* not, and in both cases neither posts to the token endpoint nor writes a
\* secret.
T_C1 ==
    \A i \in Slots :
        ex[i].later => /\ ex[i].pc = "done"
                       /\ ex[i].resp = IF Truthy(ex[i].code) THEN InvalidState
                                       ELSE Resp(400, "Missing Required Parameters")
                       /\ ~ex[i].tokenReq
                       /\ ~ex[i].wrote

\* a later invocation carrying a code has been answered, with another
\* flow's record still in the table
W_C1 ==
    \E i \in Slots : /\ ex[i].later /\ ex[i].pc = "done" /\ Truthy(ex[i].code)
                     /\ DOMAIN stateTable # {}

\* C2: of the exchange invocations running at the same time for one state
\* token, at most one passes the state check and goes on to the token
\* endpoint.
CE_C2 == \A s \in Keys : Cardinality(PastCheck(s)) <= 1

\* C3 as claimed: get_state accepts a record only when expiry > now, and
\* returns None whenever now >= expiry.
CE_C3 ==
    \A i \in Slots :
        /\ ex[i].pc = "token" => ex[i].cmp = "gt"
        /\ ex[i].cmp \in {"eq", "lt"} => ex[i].pc = "done" /\ ex[i].resp = InvalidState

\* C3 as amended: get_state accepts a record exactly when expiry >= now (the
\* instant now = expiry included), and returns None when now > expiry or the
\* record is absent.
T_C3 ==
    \A i \in Slots :
        /\ ex[i].cmp \in {"gt", "eq"} => ex[i].pc = "token"
        /\ ex[i].cmp \in {"lt", "absent"} =>
               ex[i].pc = "done" /\ ex[i].resp = InvalidState

\* get_state has read a record at the instant of its expiry
W_C3 == \E i \in Slots : ex[i].cmp = "eq"

\* C4: a record whose expiry is earlier than the clock when oauth-callback
\* reads it is never accepted (never answered with the 200 page).
CE_C4 ==
    [][\A s \in Keys :
          (s \in DOMAIN stateTable /\ stateTable[s].expires < now
           /\ s \notin cbAccepted) => s \notin cbAccepted']_vars

\* C5: an exchange invocation whose get_state finds the record absent or
\* expired returns 400 Invalid State and has neither posted to the token
\* endpoint nor written a secret.
T_C5 ==
    \A i \in Slots :
        ex[i].cmp \in {"absent", "lt"} =>
            /\ ex[i].pc = "done"
            /\ ex[i].resp = InvalidState
            /\ ~ex[i].tokenReq
            /\ ~ex[i].wrote

\* an invocation found the record expired, after an earlier exchange of
\* another flow had stored a secret
W_C5 == \E i \in Slots : ex[i].cmp = "lt" /\ DOMAIN secrets # {}

\* C6: what the exchange handler's get_state returns for a record read
\* before its expiry has passed is exactly the payload initiate-oauth-flow
\* handed to store_state.
T_C6 ==
    \A i \in Slots :
        ex[i].cmp \in {"gt", "eq"} => ex[i].state_data = initiated[ex[i].state]

\* both payloads of the model have made the round trip
W_C6 ==
    /\ ex[1].cmp = "gt"
    /\ ex[1].state_data.clientId = "zd-7"
    /\ \E s \in DOMAIN initiated : initiated[s].clientId # "zd-7"

\* C7 as claimed: once oauth-callback has accepted a state token, the record
\* is no longer in the state table.
CE_C7 == \A s \in cbAccepted : s \notin DOMAIN stateTable

\* C7 as amended: oauth-callback only reads the record; it is deleted by the
\* exchange handler; so an issued record is missing from the table only
\* after an exchange invocation deleted it, and is missing after every
\* successful exchange.
T_C7 ==
    \A s \in DOMAIN initiated :
        /\ s \in succeeded => s \notin DOMAIN stateTable /\ s \in exDeleted
        /\ s \notin exDeleted => s \in DOMAIN stateTable

\* a complete flow: initiated, accepted by oauth-callback, exchanged
W_C7 == \E s \in DOMAIN initiated : s \in cbAccepted /\ s \in succeeded

\* C8: the loop never makes more than 12 polls, and when every poll
\* reported Running the handler has made exactly 12 and returns 408 Query
\* Timeout.
T_C8 ==
    /\ poll.attempt <= 12
    /\ (poll.pc = "done" /\ poll.attempt > 0 /\ poll.onlyRunning) =>
           poll.attempt = 12 /\ poll.resp = Resp(408, "Query Timeout")

\* twelve polls all reported Running and the handler has returned
W_C8 == poll.pc = "done" /\ poll.onlyRunning /\ poll.attempt = 12

\* C9: the 408 response is returned only when the attempt budget ran out
\* with the query still Running; a query that is not found is not reported
\* as a timeout.
CE_C9 ==
    poll.resp = Resp(408, "Query Timeout") =>
        poll.attempt = 12 /\ poll.status = "Running" /\ ~poll.notFound

\* C10: from the second poll on, the handler has let the wait_time of the
\* attempt (at most 20 seconds) pass since the previous poll.
CE_C10 ==
    poll.attempt >= 2 =>
        poll.gap = poll.wait /\ poll.gap <= wait_cap * 16 /\ poll.gap > 0

\* C11: every invocation of a handler ends by returning a response that
\* carries a statusCode; no exception leaves the handler.
CE_C11 == inv.pc \in {"done", "raised"} => "statusCode" \in DOMAIN inv.resp

\* the parameters of qbusiness-sync-data-source that the request of the
\* invocation does not supply
SyncMissing ==
    LET params == sync_params(BodyOf(inv.event))
    IN  {k \in DOMAIN params : ~Truthy(params[k])}

\* C12: a request that omits one of the fields the handler needs, all
\* others being valid, is answered with a 400, never with a 500 and never
\* with an exception.
CE_C12 ==
    (/\ inv.handler = "qbusiness-sync-data-source"
     /\ inv.pc \in {"done", "raised"}
     /\ Cardinality(SyncMissing) = 1) =>
        inv.pc = "done" /\ inv.resp.statusCode = 400

\* C13: the 400 for missing parameters names exactly the fields missing
\* from the request: every omitted field, and no field the request supplied.
CE_C13 ==
    (/\ inv.handler = "salesforce/update-credentials"
     /\ inv.pc = "done"
     /\ inv.resp.statusCode = 400) =>
        inv.resp.listed = UpdMissing(BodyOf(inv.event))

\* the authorizer has dealt with a request
Authorized == inv.handler = "simple-authorizer" /\ inv.pc \in {"done", "raised"}

\* C14: a request whose resource is zendesk-oauth-callback or
\* zendesk-exchange-auth-code-for-token is allowed, whatever its headers
\* (absent, null, empty, any User-Agent), HTTP method and stage.
T_C14 ==
    (/\ Authorized
     /\ resource_of(inv.event.methodArn) \in
            {"zendesk-oauth-callback", "zendesk-exchange-auth-code-for-token"}) =>
        inv.pc = "done" /\ inv.resp.Effect = "Allow"

\* the token exchange endpoint has been requested without a headers key
W_C14 ==
    /\ Authorized
    /\ resource_of(inv.event.methodArn) = "zendesk-exchange-auth-code-for-token"
    /\ "headers" \notin DOMAIN inv.event
    /\ inv.pc = "done"

\* C15: a request to any other resource is answered with Allow if and only
\* if it carries User-Agent with exactly the designated value, and with Deny
\* in every other case, a request without headers included; the policy is
\* for the methodArn of the request.
CE_C15 ==
    (/\ Authorized
     /\ resource_of(inv.event.methodArn) \notin
            {"zendesk-oauth-callback", "zendesk-exchange-auth-code-for-token"}) =>
        /\ inv.pc = "done"
        /\ inv.resp.Resource = inv.event.methodArn
        /\ inv.resp.Effect =
              IF /\ "headers" \in DOMAIN inv.event
                 /\ "User-Agent" \in DOMAIN inv.event.headers
                 /\ inv.event.headers["User-Agent"] = "Apache-HttpClient (Java/17.0.15)"
              THEN "Allow" ELSE "Deny"

\* C16: store_credentials_in_secrets_manager never fails because the
\* name exists; when it has returned, the secret of that name holds the
\* fields of this call, whether the name was free or taken.
T_C16 ==
    /\ inv.pc = "raised" => inv.err # "ResourceExistsException"
    /\ inv.pc = "create_data_source" =>
           /\ inv.secret_name \in DOMAIN secrets
           /\ secrets[inv.secret_name] = inv.secret_value

\* the function has returned through its update branch while the store
\* holds a second secret
W_C16 ==
    /\ inv.handler = "servicenow/create-data-source"
    /\ inv.pc = "create_data_source"
    /\ inv.updated
    /\ inv.secret_value.password = "pw-2"
    /\ Cardinality(DOMAIN secrets) = 2

\* the secret document read by the invocation lacks a required field
LacksField ==
    /\ inv.got # NoneDict
    /\ ~({"hostUrl", "username", "password", "securityToken", "consumerKey",
          "consumerSecret"} \subseteq DOMAIN inv.got)

\* C17: when the secret read by get_salesforce_credentials lacks one of
\* hostUrl, username, password, securityToken, consumerKey, consumerSecret,
\* the handler (create-data-source, test-authentication) does not go on to
\* use the credentials: it answers with a 4xx and has called neither
\* Salesforce nor Q Business.
T_C17 ==
    (/\ inv.handler \in {"salesforce/create-data-source",
                         "salesforce/test-authentication"}
     /\ LacksField) =>
        /\ inv.pc = "done"
        /\ inv.resp.statusCode \in 400..499
        /\ inv.calls = {}

\* create-data-source has answered for a secret that lacks consumerSecret only
W_C17 ==
    /\ inv.handler = "salesforce/create-data-source"
    /\ inv.pc = "done"
    /\ inv.got # NoneDict
    /\ DOMAIN inv.got =
          {"hostUrl", "username", "password", "securityToken", "consumerKey"}

\* the keys under which a document carries a credential value
SensitiveKeys ==
    {"password", "securityToken", "apiToken", "clientSecret", "client_secret",
     "consumerSecret", "access_token", "accessToken", "privateKey"}

\* the printed document carries a credential value, at its top level or in
\* the request body it holds
Leaks(line) ==
    \/ DOMAIN line \cap SensitiveKeys # {}
    \/ /\ "body-json" \in DOMAIN line
       /\ DOMAIN line["body-json"] \cap SensitiveKeys # {}

\* C18: no log line written by a handler contains a credential value of
\* the request or of a partner response.
CE_C18 == \A line \in inv.logs : ~Leaks(line)

\* C19: no response contains the unmasked value of a sensitive credential:
\* here, the client secret generated by servicenow/create-oauth-app.
CE_C19 ==
    (/\ inv.handler = "servicenow/create-oauth-app"
     /\ inv.pc = "done"
     /\ inv.resp.statusCode = 200) =>
        \A k \in DOMAIN inv.resp.response :
            inv.resp.response[k] # inv.secret_value.client_secret

\* preview shows the first n and the last n characters of value around
\* "..." and nothing else
ShowsOnlyEnds(preview, value, n) ==
    /\ Len(preview) = 2 * n + 3
    /\ \A i \in 1..n :
          /\ preview[i] = value[i]
          /\ preview[n + 3 + i] = value[Len(value) - n + i]
    /\ \A i \in 1..3 : preview[n + i] = "."

\* C20: the preview of consumerSecret in the response of update-credentials
\* is its first 4 and last 4 characters around "...", for a secret of at
\* least 8 characters; the preview of accessToken in the response of
\* test-authentication is its first 10 and last 10, for a token of at least
\* 20 characters.
T_C20 ==
    /\ (/\ inv.handler = "salesforce/update-credentials"
        /\ inv.pc = "done"
        /\ inv.resp.statusCode = 200
        /\ Len(inv.body.consumerSecret) >= 8) =>
           ShowsOnlyEnds(inv.resp.consumerSecret, inv.body.consumerSecret, 4)
    /\ (/\ inv.handler = "salesforce/test-authentication"
        /\ inv.pc = "done"
        /\ inv.resp.statusCode = 200
        /\ Len(inv.secret_value.access_token) >= 20) =>
           ShowsOnlyEnds(inv.resp.accessToken, inv.secret_value.access_token, 10)

\* update-credentials has answered 200 for a consumer secret of ten
\* characters
W_C20 ==
    /\ inv.handler = "salesforce/update-credentials"
    /\ inv.pc = "done"
    /\ inv.resp.statusCode = 200
    /\ Len(inv.body.consumerSecret) = 10

\* the invocation has built a configuration, and so did the invocation
\* before it, for the same request and from the same credentials
BuiltTwice ==
    /\ inv.handler = "salesforce/create-data-source"
    /\ inv.config # NoneDict
    /\ inv.prev # NoneDict
    /\ inv.prev.credentials = inv.got

\* C21: a configuration builder is a deterministic function of its
\* arguments: two calls of build_salesforce_configuration with the same
\* credentials, secret name and options return the same configuration,
\* whatever the secret store answers at the time of each call.
CE_C21 == BuiltTwice => inv.config = inv.prev.result

\* the invocation has built a Salesforce configuration
SdsBuilt ==
    inv.handler = "salesforce/create-data-source" /\ inv.config # NoneDict

\* C22: in the configuration built, an object is configured to be crawled
\* (its crawl flag true and its repository configuration present) exactly
\* when its include option is true, and the attachments of an object are
\* crawled only when crawlAttachments is true.
CE_C22 ==
    SdsBuilt =>
        LET config == sds_config(inv.body)
            props == inv.config.additionalProperties
            repos == inv.config.repositoryConfigurations
        IN  /\ \A b \in ObjectBlocks :
                  ((b[5] # None => props[b[5]]) /\ b[2] \in DOMAIN repos)
                      <=> config[b[1]]
            /\ \A k \in AttachmentFlags : props[k] => config.crawlAttachments

\* the invocation has created a Zendesk data source
ZdsBuilt ==
    /\ inv.handler = "zendesk/create-data-source"
    /\ inv.config # NoneDict
    /\ inv.updated

\* C23: the Zendesk configuration follows dataSourceType: GUIDE crawls
\* only articles, SUPPORT only tickets and ticket comments, BOTH, an absent
\* and an unknown value all three, so that no data source created crawls
\* neither articles nor tickets.
CE_C23 ==
    ZdsBuilt =>
        LET t == GetOr(inv.body, "dataSourceType", "BOTH")
            props == inv.config.additionalProperties
            article == props.isCrawlArticle = "true"
            ticket == props.isCrawTicket = "true"
            comment == props.isCrawTicketComment = "true"
        IN  /\ t = "GUIDE" => article /\ ~ticket /\ ~comment
            /\ t = "SUPPORT" => ~article /\ ticket /\ comment
            /\ t \notin {"GUIDE", "SUPPORT"} => article /\ ticket /\ comment
            /\ article \/ ticket

\* C24: store_token is idempotent under concurrency: an exchange
\* invocation whose describe_secret found no secret, and which comes to
\* create_secret after another invocation has created the secret of that
\* name, does not fail but stores its token in the one secret.
CE_C24 ==
    [][\A i \in Slots :
          (ex[i].pc = "create" /\ ex[i].secret_name \in DOMAIN secrets)
              => ~(ex'[i].pc = "done" /\ ex'[i].resp.statusCode = 500)]_vars

\* C25: the 200 response with the logs is returned only when the last
\* poll reported the query Complete; Scheduled, Failed, Cancelled and
\* Timeout never lead to a 200.
CE_C25 == poll.resp.statusCode = 200 => poll.status = "Complete"

\* C26: the steps of an exchange invocation come in the order state read,
\* token request, secret write, state delete; the 200 response is given
\* only by the step that deletes the state record, after the three others;
\* and a step that fails at the token request or at the secret write
\* answers 500 and leaves the state table as it was.
T_C26 ==
    [][LET f == ex[1]
           g == ex'[1]
       IN  /\ (~f.tokenReq /\ g.tokenReq) =>
                  f.pc = "token" /\ TruthyDict(f.state_data) /\ ~f.wrote
           /\ (~f.wrote /\ g.wrote) =>
                  f.tokenReq /\ TruthyDict(f.token_data) /\ g.pc = "delete"
           /\ (f.pc # "done" /\ g.pc = "done" /\ g.resp.statusCode = 200) =>
                  /\ f.pc = "delete" /\ f.tokenReq /\ f.wrote
                  /\ f.secret_name \in DOMAIN secrets
                  /\ f.state \notin DOMAIN stateTable'
                  /\ f.state \in exDeleted'
           /\ (f.pc \in {"token", "describe", "update", "create"} /\ g # f) =>
                  /\ stateTable' = stateTable
                  /\ g.pc = "done" => g.resp.statusCode = 500
      ]_vars

\* an invocation has failed after its token request without writing a
\* secret, its state record is still in the table, and an exchange of
\* another flow had gone through all four steps before
W_C26 ==
    /\ ex[1].pc = "done" /\ ex[1].resp.statusCode = 500
    /\ ex[1].tokenReq /\ ~ex[1].wrote
    /\ succeeded # {}
    /\ DOMAIN stateTable # {}

\* the invocation has got past get_salesforce_credentials for a secret of
\* the Salesforce handlers
PastValidation ==
    /\ inv.handler \in {"salesforce/create-data-source",
                        "salesforce/test-authentication"}
    /\ inv.body # NoneDict
    /\ "secretName" \in DOMAIN inv.body
    /\ inv.body.secretName \in SfSecretNames
    /\ inv.pc = "use_credentials" \/ inv.calls # {}

\* C27: create-data-source and test-authentication get past credential
\* validation only with a secret that update-credentials has completed: a
\* secret as create-connected-app wrote it, with consumerKey and
\* consumerSecret empty, is rejected and no data source is created from it.
CE_C27 ==
    PastValidation =>
        /\ inv.got.consumerKey # ""
        /\ inv.got.consumerSecret # <<>>

Listed ==
    /\ inv.handler \in ListHandlers
    /\ inv.pc = "done"
    /\ inv.resp.statusCode = 200

\* C29: the response lists, for every application and each of its indices,
\* the data sources of all result pages of that index and no others (an
\* empty list for an index without data sources), and it is the response
\* the other copy of the handler gives for the same control plane.
CE_C29 ==
    Listed =>
        LET plane == inv.got
            apps == Flatten(plane.applications)
            other == CHOOSE h \in ListHandlers : h # inv.handler
        IN  /\ Len(inv.resp.applications) = Len(apps)
            /\ \A a \in 1..Len(apps) :
                  LET listed == inv.resp.applications[a].indices
                      indices == plane.indices[apps[a].applicationId]
                  IN  /\ Len(listed) = Len(indices)
                      /\ \A n \in 1..Len(indices) :
                            LET all == Flatten(plane.dataSources[indices[n].indexId])
                            IN  /\ listed[n].indexId = indices[n].indexId
                                /\ [d \in 1..Len(listed[n].dataSources) |->
                                       listed[n].dataSources[d].dataSourceId]
                                   = [d \in 1..Len(all) |-> all[d].dataSourceId]
            /\ inv.resp.applications
                   = [a \in 1..Len(apps) |-> application_result(other, plane, apps[a])]

\* the invocation has answered that its request lacks parameters
MissingParameters400 ==
    /\ inv.handler \in {"qbusiness-sync-summary",
                        "salesforce/setup-salesforce-actions-plugin"}
    /\ inv.pc = "done"
    /\ inv.resp.statusCode = 400

\* C30: an invocation that answers 400 for missing parameters has made no
\* external call: no secret store, partner or Q Business request.
CE_C30 == MissingParameters400 => inv.calls = {}

====
